---- MODULE Spec2Model ----
(***************************************************************************)
(* A model of needle's audio comparator (needle/src/audio/comparator.rs):  *)
(* the LCS matcher over two fingerprint streams, the pair search that      *)
(* buckets its entries, the per-video aggregator and the driver            *)
(* Comparator::run.                                                        *)
(*                                                                         *)
(* Durations are natural numbers of ticks; the aggregator reads one tick   *)
(* as one second.  Hashes are u32 values, drawn from a small set.  Streams *)
(* are 1-indexed sequences here and 0-indexed slices in the source: At     *)
(* reads a stream at a source index.                                       *)
(***************************************************************************)
EXTENDS Integers, Sequences, FiniteSets, TLC

VARIABLES
    comparator,       \* the Comparator's configuration fields (self)
    m_src,            \* matcher harness: the src FrameHashes
    m_dst,            \* matcher harness: the dst FrameHashes
    m_call,           \* matcher harness: which function was applied ("none" before)
    m_search,         \* matcher harness: what the pair search did and returned
    a_matches,        \* aggregator harness: one video's list of (info, is_source)
    a_call,           \* aggregator harness: which function was applied ("none" before)
    a_out,            \* aggregator harness: what find_best_match did and returned
    r_videos,         \* run: the frame hash data behind each path of self.videos
    r_flags,          \* run: analyze, use_skip_files, write_skip_files, threading
    r_disk,           \* run: the frame hash file and the skip file beside each video
    r_run,            \* run: 1 in the first call of run, 2 in a second call
    r_first,          \* run: what the first call did, once it returned and run is called again
    r_error,          \* run: the error of Err(..), "none" without one
    r_pc,             \* run: "idle", "load", "search", "select" or "done"
    r_idx,            \* run: index of the loop in progress
    r_frame_hash_map, \* run: frame_hash_map
    r_processed,      \* run: processed_videos
    r_pairs,          \* run: pairs
    r_searches,       \* run: for each pair of r_pairs, how often it was searched and the info found
    r_info_map,       \* run: info_map
    r_match_map,      \* run: match_map
    r_skipped,        \* run: the videos passed over because of their skip file
    r_written,        \* run: the videos whose skip file was written
    r_result,         \* run: "running", then "ok", "err" or "panic"
    an_self,          \* analyzer: the Analyzer's fields force and include_endings (self)
    an_args,          \* analyzer: hash_period, hash_duration, persist, threading
    an_videos,        \* analyzer: the video file behind each path of self.videos
    an_cache,         \* analyzer: the frame hash file beside each video
    an_tasks,         \* analyzer: per video, "todo" or what run_single did and returned
    an_pc,            \* analyzer: "idle", "start", "tasks", "unwinding" or "done"
    an_result,        \* analyzer: what Analyzer::run returned
    c_call,           \* C ABI: the function called last and its arguments
    c_ret,            \* C ABI: what it returned ("none" for void, "panic" if it did not return)
    c_output,         \* C ABI: *output of the constructor called last: a handle, 0 (null) if unwritten
    c_heap,           \* C ABI: the handles created and not freed
    c_ids             \* C ABI: how many handles were created

m_vars == <<m_src, m_dst, m_call, m_search>>
a_vars == <<a_matches, a_call, a_out>>
r_vars == <<r_videos, r_flags, r_pc, r_idx, r_frame_hash_map, r_processed, r_pairs,
            r_searches, r_info_map, r_match_map, r_skipped, r_written, r_result,
            r_disk, r_run, r_first, r_error>>

an_vars == <<an_self, an_args, an_videos, an_cache, an_tasks, an_pc, an_result>>

c_vars == <<c_call, c_ret, c_output, c_heap, c_ids>>

\* the variables of the analyzer and of the C ABI, which the comparator's
\* functions leave alone
x_vars == <<an_vars, c_vars>>

vars == <<comparator, m_vars, a_vars, r_vars, x_vars>>

----------------------------------------------------------------------------
(* Bounds of the model. *)

\* longest fingerprint stream drawn as an input
MaxLen == 4

\* most paths passed to a constructor of the C ABI
MaxPaths == 2

\* most handles the constructors of the C ABI create in a behaviour
MaxHandles == 2

\* longest block of the hand-constructed pairs, and their filler lengths
MaxBlock == 3
Pads == {0, 1, 2}

\* hash values the streams are drawn from (u32 values)
HashVals == {0, 1}

\* hash-match thresholds the comparator is configured with
Thresholds == {0, 1}

\* <<opening_search_percentage, ending_search_percentage>>, in eighths (exact
\* in f32): the defaults 0.5 / 0.25, the overlapping regions 0.75 / 0.875, and
\* the whole stream for both, 1.0 / 1.0
SearchPercentages == {<<4, 2>>, <<6, 7>>, <<8, 8>>}

\* <<min_opening_duration, min_ending_duration>>
MinDurations == {<<0, 0>>, <<2, 1>>}

\* <<src hash_duration, dst hash_duration>>
HashDurations == {<<1, 2>>}

\* timestamps of a stream: the sample at source index i starts at i * HashPeriod
HashPeriod == 1

\* longest list of matches handed to the aggregator for one video
MaxMatches == 3

\* longest list of videos given to Comparator::run
MaxVideos == 3

\* DEFAULT_HASH_DURATION, in seconds
DEFAULT_HASH_DURATION == 3

----------------------------------------------------------------------------
(* u32 primitives. *)

RECURSIVE CountOnes(_)
CountOnes(x) == IF x = 0 THEN 0 ELSE (x % 2) + CountOnes(x \div 2)

RECURSIVE Xor(_, _)
Xor(a, b) ==
    IF a = 0 /\ b = 0 THEN 0
    ELSE (((a % 2) + (b % 2)) % 2) + 2 * Xor(a \div 2, b \div 2)

\* chromaprint's simhash32: bit b of the result is set iff more of the hashes
\* have bit b set than have it clear.  Bits above the highest set bit of every
\* input get no vote in favour and stay clear.
RECURSIVE SumVotes(_, _)
SumVotes(hs, k) ==
    IF k = 0 THEN 0
    ELSE (IF hs[k] % 2 = 1 THEN 1 ELSE -1) + SumVotes(hs, k - 1)

RECURSIVE simhash32(_)
simhash32(hs) ==
    IF \A k \in 1..Len(hs) : hs[k] = 0 THEN 0
    ELSE (IF SumVotes(hs, Len(hs)) > 0 THEN 1 ELSE 0)
         + 2 * simhash32([k \in 1..Len(hs) |-> hs[k] \div 2])

----------------------------------------------------------------------------
(* Streams and records. *)

\* source index i of a slice
At(s, i) == s[i + 1]

\* a fingerprint sample (u32, Duration)
Sample(h, t) == [hash |-> h, ts |-> t]

\* the streams of a given length: any hashes, timestamps one period apart
StreamsOfLen(n) ==
    { [k \in 1..n |-> Sample(hs[k], (k - 1) * HashPeriod)] : hs \in [1..n -> HashVals] }

Streams == UNION { StreamsOfLen(n) : n \in 0..MaxLen }

\* a stream with the given hashes, timestamps one period apart
StreamOf(hs) == [k \in 1..Len(hs) |-> Sample(hs[k], (k - 1) * HashPeriod)]

\* hand-constructed pairs: the same block of k distinct hashes in both streams,
\* between fillers that match nothing of the other stream (src = [A,B,C,D],
\* dst = [X,A,B,C,Y] is the pair with k = 3 and pads 0, 1, 1, 1)
Fill(n, h) == [k \in 1..n |-> h]
Block(k) == [i \in 1..k |-> 2 ^ i]
BlockPairs ==
    { << StreamOf(Fill(pad[1], 0) \o Block(k) \o Fill(pad[2], 0)),
         StreamOf(Fill(pad[3], 1) \o Block(k) \o Fill(pad[4], 1)) >> :
      k \in 1..MaxBlock, pad \in [1..4 -> Pads] }

\* the pairs of streams the matcher is applied to
StreamPairs == (Streams \X Streams) \cup BlockPairs

\* struct FrameHashes as the comparator reads it: data and hash_duration
FrameHashes(data, hd) == [data |-> data, hash_duration |-> hd]

Ok(v) == [status |-> "ok", value |-> v]
Err(e) == [status |-> "err", value |-> e]
Panic == [status |-> "panic", value |-> <<>>]

----------------------------------------------------------------------------
(* Comparator::longest_common_hash_match *)

compute_hash_for_match(hashes, start, end) ==
    simhash32([k \in 1..(end - start + 1) |-> At(hashes, start + k - 1).hash])

\* (variant for C29) a match in row 0 or column 0 starts a run
RECURSIVE Table_FirstRowCounts(_, _, _, _, _)
Table_FirstRowCounts(self, src, dst, i, j) ==
    IF i >= Len(src) \/ j >= Len(dst) THEN 0
    ELSE IF CountOnes(Xor(At(src, i).hash, At(dst, j).hash)) <= self.hash_match_threshold
         THEN (IF i = 0 \/ j = 0 THEN 0
               ELSE Table_FirstRowCounts(self, src, dst, i - 1, j - 1)) + 1
    ELSE 0

\* the DP table: table[i][j] for 0 <= i <= src.len(), 0 <= j <= dst.len().
\* The loops write rows 0..src.len()-1 and columns 0..dst.len()-1 only; row
\* src.len() and column dst.len() keep the 0 of vec![].
RECURSIVE Table(_, _, _, _, _)
Table(self, src, dst, i, j) ==
    IF i >= Len(src) \/ j >= Len(dst) THEN 0
    ELSE IF i = 0 \/ j = 0 THEN 0
    ELSE IF CountOnes(Xor(At(src, i).hash, At(dst, j).hash)) <= self.hash_match_threshold
         THEN Table(self, src, dst, i - 1, j - 1) + 1
    ELSE 0

\* the cells in the order the two while loops visit them:
\* i from src.len()-1 down to 1, and for each i, j from dst.len()-1 down to 1
WalkOrder(n, m) ==
    [k \in 1..((n - 1) * (m - 1)) |->
        <<(n - 1) - ((k - 1) \div (m - 1)), (m - 1) - ((k - 1) % (m - 1))>>]

\* (variant for C2) every non-zero cell counts as the end of a run
IsRunEnd_AnyNonZero(self, src, dst, i, j) ==
    Table(self, src, dst, i, j) # 0

\* the cell is not skipped by the first test of the inner loop: it is non-zero
\* and the next cell on its diagonal is zero (or i, j is on the last row / column)
IsRunEnd(self, src, dst, i, j) ==
    ~ ( Table(self, src, dst, i, j) = 0
        \/ ( i < Len(src) - 1 /\ j < Len(dst) - 1
             /\ Table(self, src, dst, i + 1, j + 1) # 0 ) )

\* (variant for C8) the opening gate admits the runs that are short enough
IsSideValid_GateInverted(self, is_opening, is_ending, start, end) ==
    \/ (is_opening /\ (end - start) <= self.min_opening_duration)
    \/ (is_ending /\ (end - start) >= self.min_ending_duration)

\* one side of a candidate: is the run a valid opening or a valid ending there
IsSideValid(self, is_opening, is_ending, start, end) ==
    \/ (is_opening /\ (end - start) >= self.min_opening_duration)
    \/ (is_ending /\ (end - start) >= self.min_ending_duration)

\* (variant for C3) a run that starts at dst's ending bound is an ending
Run_DstEndingInclusive(self, src, dst, b, i, j) ==
    LET t == Table(self, src, dst, i, j)
        src_start == At(src, i - t).ts
        src_end == At(src, i).ts
        dst_start == At(dst, j - t).ts
        dst_end == At(dst, j).ts
    IN  [ score |-> t,
          src_start_idx |-> i - t, src_end_idx |-> i,
          dst_start_idx |-> j - t, dst_end_idx |-> j,
          src_start |-> src_start, src_end |-> src_end,
          dst_start |-> dst_start, dst_end |-> dst_end,
          is_src_opening |-> src_end < b.src_max_opening_time,
          is_src_ending |-> src_start > b.src_min_ending_time,
          is_dst_opening |-> dst_end < b.dst_max_opening_time,
          is_dst_ending |-> dst_start >= b.dst_min_ending_time ]

\* the run of cell (i, j): its index and time ranges and its classification
Run(self, src, dst, b, i, j) ==
    LET t == Table(self, src, dst, i, j)
        src_start == At(src, i - t).ts
        src_end == At(src, i).ts
        dst_start == At(dst, j - t).ts
        dst_end == At(dst, j).ts
    IN  [ score |-> t,
          src_start_idx |-> i - t, src_end_idx |-> i,
          dst_start_idx |-> j - t, dst_end_idx |-> j,
          src_start |-> src_start, src_end |-> src_end,
          dst_start |-> dst_start, dst_end |-> dst_end,
          is_src_opening |-> src_end < b.src_max_opening_time,
          is_src_ending |-> src_start > b.src_min_ending_time,
          is_dst_opening |-> dst_end < b.dst_max_opening_time,
          is_dst_ending |-> dst_start > b.dst_min_ending_time ]

\* (variant for C21) a run that is valid on one side is pushed
IsValid_EitherSide(self, r) ==
    \/ IsSideValid(self, r.is_src_opening, r.is_src_ending, r.src_start, r.src_end)
    \/ IsSideValid(self, r.is_dst_opening, r.is_dst_ending, r.dst_start, r.dst_end)

\* A LCS result is only valid iff it is a valid opening or ending in the
\* source and the dest
IsValid(self, r) ==
    /\ IsSideValid(self, r.is_src_opening, r.is_src_ending, r.src_start, r.src_end)
    /\ IsSideValid(self, r.is_dst_opening, r.is_dst_ending, r.dst_start, r.dst_end)

\* (variant for C9) the entry's src flags are copied from the dst side
Entry_SrcFlagsFromDst(src, dst, b, r) ==
    [ score |-> r.score,
      src_longest_run |-> <<r.src_start, r.src_end>>,
      dst_longest_run |-> <<r.dst_start, r.dst_end>>,
      src_match_hash |-> compute_hash_for_match(src, r.src_start_idx, r.src_end_idx),
      dst_match_hash |-> compute_hash_for_match(dst, r.dst_start_idx, r.dst_end_idx),
      is_src_opening |-> r.is_dst_opening,
      is_src_ending |-> r.is_dst_ending,
      is_dst_opening |-> r.is_dst_opening,
      is_dst_ending |-> r.is_dst_ending,
      src_hash_duration |-> b.src_hash_duration,
      dst_hash_duration |-> b.dst_hash_duration ]

\* the ComparatorHeapEntry built for a valid run
Entry(src, dst, b, r) ==
    [ score |-> r.score,
      src_longest_run |-> <<r.src_start, r.src_end>>,
      dst_longest_run |-> <<r.dst_start, r.dst_end>>,
      src_match_hash |-> compute_hash_for_match(src, r.src_start_idx, r.src_end_idx),
      dst_match_hash |-> compute_hash_for_match(dst, r.dst_start_idx, r.dst_end_idx),
      is_src_opening |-> r.is_src_opening,
      is_src_ending |-> r.is_src_ending,
      is_dst_opening |-> r.is_dst_opening,
      is_dst_ending |-> r.is_dst_ending,
      src_hash_duration |-> b.src_hash_duration,
      dst_hash_duration |-> b.dst_hash_duration ]

\* #[derive(PartialOrd, Ord)] on ComparatorHeapEntry: lexicographic in field order
B2N(x) == IF x THEN 1 ELSE 0

EntryKey(e) ==
    << e.score, e.src_longest_run[1], e.src_longest_run[2],
       e.dst_longest_run[1], e.dst_longest_run[2],
       e.src_match_hash, e.dst_match_hash,
       B2N(e.is_src_opening), B2N(e.is_src_ending),
       B2N(e.is_dst_opening), B2N(e.is_dst_ending),
       e.src_hash_duration, e.dst_hash_duration >>

RECURSIVE LexLeq(_, _, _)
LexLeq(a, b, k) ==
    IF k > Len(a) THEN TRUE
    ELSE IF a[k] < b[k] THEN TRUE
    ELSE IF a[k] > b[k] THEN FALSE
    ELSE LexLeq(a, b, k + 1)

EntryLeq(a, b) == LexLeq(EntryKey(a), EntryKey(b), 1)

\* BinaryHeap::push: append, then sift the new element up while it is greater
\* than its parent (pos is a source index into the heap's vector)
RECURSIVE SiftUp(_, _)
SiftUp(data, pos) ==
    IF pos = 0 THEN data
    ELSE LET parent == (pos - 1) \div 2
             swapped == [data EXCEPT ![pos + 1] = At(data, parent),
                                     ![parent + 1] = At(data, pos)]
         IN  IF EntryLeq(At(data, pos), At(data, parent)) THEN data
             ELSE SiftUp(swapped, parent)

HeapPush(heap, e) ==
    LET data == Append(heap, e)
    IN  SiftUp(data, Len(data) - 1)

\* the cells whose entry is pushed, in the order of the walk
RECURSIVE PushedCells(_, _, _, _, _, _)
PushedCells(self, src, dst, b, walk, k) ==
    IF k > Len(walk) THEN <<>>
    ELSE LET i == walk[k][1]
             j == walk[k][2]
             rest == PushedCells(self, src, dst, b, walk, k + 1)
         IN  IF IsRunEnd(self, src, dst, i, j)
                /\ IsValid(self, Run(self, src, dst, b, i, j))
             THEN <<walk[k]>> \o rest
             ELSE rest

\* the heap after the entries of cells[1..k] were pushed in that order
RECURSIVE HeapOf(_, _, _, _, _, _)
HeapOf(self, src, dst, b, cells, k) ==
    IF k = 0 THEN <<>>
    ELSE LET heap == HeapOf(self, src, dst, b, cells, k - 1)
             r == Run(self, src, dst, b, cells[k][1], cells[k][2])
             entry == Entry(src, dst, b, r)
         IN  HeapPush(heap, entry)

\* Whether the walk of the table panics.  `let mut i = src.len() - 1` and
\* `let mut j = dst.len() - 1` are usize subtractions: with overflow checks they
\* panic at 0 - 1; without, they wrap to usize::MAX and the first table[i][j]
\* read is out of bounds, unless no read happens (the inner loop is not entered
\* when dst.len() = 1, the outer loop is not entered when src.len() = 1).
\* With an empty src, a dst of one sample and no overflow checks the outer
\* loop counts i down from usize::MAX with an empty body and nothing is
\* pushed: the walk is taken to return, with no entry.
WalkPanics(n, m, overflow_checks) ==
    \/ n = 0 /\ (overflow_checks \/ m # 1)
    \/ n >= 2 /\ m = 0

\* the walk of the table when it does not panic: the cells pushed and the
\* heap's vector at the end
\* b: the four region bounds and the two hash durations passed by the caller
WalkTable(self, src, dst, b) ==
    IF Len(src) <= 1 \/ Len(dst) <= 1
    THEN [status |-> "ok", value |-> <<>>, cells |-> <<>>]
    ELSE LET cells == PushedCells(self, src, dst, b, WalkOrder(Len(src), Len(dst)), 1)
         IN  [status |-> "ok",
              value |-> HeapOf(self, src, dst, b, cells, Len(cells)),
              cells |-> cells]

Walk(self, src, dst, b, overflow_checks) ==
    IF WalkPanics(Len(src), Len(dst), overflow_checks)
    THEN [status |-> "panic", value |-> <<>>, cells |-> <<>>]
    ELSE WalkTable(self, src, dst, b)

longest_common_hash_match(self, src, dst, b, overflow_checks) ==
    LET w == Walk(self, src, dst, b, overflow_checks)
    IN  [status |-> w.status, value |-> w.value]

----------------------------------------------------------------------------
(* Comparator::find_opening_and_ending *)

\* ((len - 1) as f32 * percentage) as usize, the percentage in eighths
SearchIdx(len, eighths) == ((len - 1) * eighths) \div 8

SearchBounds(self, src_hashes, dst_hashes) ==
    LET src_hash_data == src_hashes.data
        dst_hash_data == dst_hashes.data
        src_opening_search_idx ==
            SearchIdx(Len(src_hash_data), self.opening_search_percentage)
        src_ending_search_idx ==
            SearchIdx(Len(src_hash_data), 8 - self.ending_search_percentage)
        dst_opening_search_idx ==
            SearchIdx(Len(dst_hash_data), self.opening_search_percentage)
        dst_ending_search_idx ==
            SearchIdx(Len(dst_hash_data), 8 - self.ending_search_percentage)
    IN  [ src_max_opening_time |-> At(src_hash_data, src_opening_search_idx).ts,
          src_min_ending_time |-> At(src_hash_data, src_ending_search_idx).ts,
          dst_max_opening_time |-> At(dst_hash_data, dst_opening_search_idx).ts,
          dst_min_ending_time |-> At(dst_hash_data, dst_ending_search_idx).ts,
          src_hash_duration |-> src_hashes.hash_duration,
          dst_hash_duration |-> dst_hashes.hash_duration ]

\* `src_hash_data.len() - 1` on an empty stream panics with overflow checks and
\* wraps without; the wrapped index, scaled and cast back, is then read from an
\* empty slice, which panics too (every index is out of bounds)
BoundsPanic(src_hashes, dst_hashes) ==
    Len(src_hashes.data) = 0 \/ Len(dst_hashes.data) = 0

\* the four buckets: each keeps the entries its test selects, in the order of
\* the matcher's Vec (an entry that is an opening is not pushed as an ending)
OpeningAndEndingInfo(entries) ==
    LET IsSrcOpening(e) == e.is_src_opening
        IsSrcEnding(e) == ~e.is_src_opening /\ e.is_src_ending
        IsDstOpening(e) == e.is_dst_opening
        IsDstEnding(e) == ~e.is_dst_opening /\ e.is_dst_ending
    IN  [ src_openings |-> SelectSeq(entries, IsSrcOpening),
          dst_openings |-> SelectSeq(entries, IsDstOpening),
          src_endings |-> SelectSeq(entries, IsSrcEnding),
          dst_endings |-> SelectSeq(entries, IsDstEnding) ]

\* The pair search with what it did on the way: entries is the matcher's
\* result and cells the table cells whose entry the matcher pushed.
PairSearch(self, src_hashes, dst_hashes, overflow_checks) ==
    IF BoundsPanic(src_hashes, dst_hashes)
    THEN [status |-> "panic", value |-> <<>>, called |-> FALSE,
          entries |-> <<>>, cells |-> <<>>]
    ELSE LET w == Walk(self, src_hashes.data, dst_hashes.data,
                       SearchBounds(self, src_hashes, dst_hashes), overflow_checks)
         IN  [status |-> w.status,
              value |-> IF w.status = "ok" THEN OpeningAndEndingInfo(w.value) ELSE <<>>,
              called |-> TRUE,
              entries |-> w.value,
              cells |-> w.cells]

\* The matcher called on the two slices directly, with bounds a caller can
\* pass without reading a sample: every region bound 0.
ZeroBounds(src_hashes, dst_hashes) ==
    [ src_max_opening_time |-> 0, src_min_ending_time |-> 0,
      dst_max_opening_time |-> 0, dst_min_ending_time |-> 0,
      src_hash_duration |-> src_hashes.hash_duration,
      dst_hash_duration |-> dst_hashes.hash_duration ]

MatcherCall(self, src_hashes, dst_hashes, overflow_checks) ==
    LET w == Walk(self, src_hashes.data, dst_hashes.data,
                  ZeroBounds(src_hashes, dst_hashes), overflow_checks)
    IN  [status |-> w.status, value |-> <<>>, called |-> TRUE,
         entries |-> w.value, cells |-> w.cells]

find_opening_and_ending(self, src_hashes, dst_hashes, overflow_checks) ==
    LET r == PairSearch(self, src_hashes, dst_hashes, overflow_checks)
    IN  [status |-> r.status, value |-> r.value]

----------------------------------------------------------------------------
(* Comparator::find_best_match *)

\* Option<T>: None is the empty sequence, Some(x) the sequence of x alone
Some(x) == <<x>>
NoneOpt == <<>>

\* a candidate: ((start, end), hash_duration, match_hash) and is_opening
SrcCandidate(e, is_opening) ==
    [ run |-> e.src_longest_run, hash_duration |-> e.src_hash_duration,
      match_hash |-> e.src_match_hash, is_opening |-> is_opening ]

DstCandidate(e, is_opening) ==
    [ run |-> e.dst_longest_run, hash_duration |-> e.dst_hash_duration,
      match_hash |-> e.dst_match_hash, is_opening |-> is_opening ]

\* the candidates one match contributes: its openings, then its endings, of
\* the side the video is on
MatchCandidates(m, is_source) ==
    IF is_source
    THEN [k \in 1..Len(m.src_openings) |-> SrcCandidate(m.src_openings[k], TRUE)]
         \o [k \in 1..Len(m.src_endings) |-> SrcCandidate(m.src_endings[k], FALSE)]
    ELSE [k \in 1..Len(m.dst_openings) |-> DstCandidate(m.dst_openings[k], TRUE)]
         \o [k \in 1..Len(m.dst_endings) |-> DstCandidate(m.dst_endings[k], FALSE)]

\* (variant for C25) only the first match of the list is flattened
Candidates_FirstMatchOnly(matches, k) ==
    MatchCandidates(matches[1][1], matches[1][2])

RECURSIVE Candidates(_, _)
Candidates(matches, k) ==
    IF k > Len(matches) THEN <<>>
    ELSE MatchCandidates(matches[k][1], matches[k][2]) \o Candidates(matches, k + 1)

\* the test of the inner loop: the pair is recorded unless
\* dist >= hash_match_threshold + hash_match_threshold / 2
IsNeighbor(self, c, other) ==
    ~ ( CountOnes(Xor(c.match_hash, other.match_hash))
          >= self.hash_match_threshold + (self.hash_match_threshold \div 2) )

\* distinct_matches: a key for every candidate recorded in some pair, with the
\* set of candidates it was recorded with
distinct_matches(self, candidates) ==
    LET With(i) == { j \in 1..Len(candidates) :
                        \/ IsNeighbor(self, candidates[i], candidates[j])
                        \/ IsNeighbor(self, candidates[j], candidates[i]) }
    IN  [ i \in { i \in 1..Len(candidates) : With(i) # {} } |-> With(i) ]

\* (variant for C5) the weights of count and duration exchanged
Score_WeightsExchanged(candidates, dm, k) ==
    - (7 * Cardinality(dm[k]) + 3 * (candidates[k].run[2] - candidates[k].run[1]))

\* -(count as f32 * 0.3 + duration_secs * 0.7), times 10.  Durations are whole
\* seconds here, and for the runs of OwnRuns and RunStreams two candidates of
\* one kind have the same count and duration or scores 0.1 or more apart, so
\* the rounding of f32 neither orders two equal scores nor reorders two
\* different ones.
Score(candidates, dm, k) ==
    - (3 * Cardinality(dm[k]) + 7 * (candidates[k].run[2] - candidates[k].run[1]))

\* (variant for C24) of the elements with the least score the one of the
\* highest index comes first
BestOf_LastOfEqual(candidates, dm, is_opening) ==
    LET ks == { k \in DOMAIN dm : candidates[k].is_opening = is_opening }
        Before(k, o) ==
            \/ Score(candidates, dm, k) < Score(candidates, dm, o)
            \/ Score(candidates, dm, k) = Score(candidates, dm, o) /\ k >= o
    IN  IF ks = {} THEN 0
        ELSE CHOOSE k \in ks : \A o \in ks : Before(k, o)

\* the first element after sorting (score, k) ascending, over the keys of
\* distinct_matches of the given kind; 0 if there is none
BestOf(candidates, dm, is_opening) ==
    LET ks == { k \in DOMAIN dm : candidates[k].is_opening = is_opening }
        Before(k, o) ==
            \/ Score(candidates, dm, k) < Score(candidates, dm, o)
            \/ Score(candidates, dm, k) = Score(candidates, dm, o) /\ k <= o
    IN  IF ks = {} THEN 0
        ELSE CHOOSE k \in ks : \A o \in ks : Before(k, o)

\* (variant for C6) the hash duration is not subtracted from the end
Report_NoHashWindow(self, c) ==
    IF c.run[2] < self.time_padding
    THEN Panic
    ELSE Ok(<<c.run[1] + self.time_padding, c.run[2] - self.time_padding>>)

\* (start + time_padding, end - time_padding - hash_duration); a Duration
\* subtraction that would go below zero panics
Report(self, c) ==
    IF c.run[2] < self.time_padding
       \/ c.run[2] - self.time_padding < c.hash_duration
    THEN Panic
    ELSE Ok(<<c.run[1] + self.time_padding,
              c.run[2] - self.time_padding - c.hash_duration>>)

\* find_best_match with what it did on the way: candidates is the flattened
\* list, opening_idx / ending_idx the candidate selected (0 for none)
BestMatch(self, matches) ==
    IF Len(matches) = 0
    THEN [status |-> "ok", value |-> NoneOpt, candidates |-> <<>>,
          opening_idx |-> 0, ending_idx |-> 0]
    ELSE LET candidates == Candidates(matches, 1)
             dm == distinct_matches(self, candidates)
             o == BestOf(candidates, dm, TRUE)
             e == BestOf(candidates, dm, FALSE)
             opening == IF o = 0 THEN Ok(NoneOpt)
                        ELSE LET r == Report(self, candidates[o])
                             IN  IF r.status = "ok" THEN Ok(Some(r.value)) ELSE Panic
             ending == IF e = 0 THEN Ok(NoneOpt)
                       ELSE LET r == Report(self, candidates[e])
                            IN  IF r.status = "ok" THEN Ok(Some(r.value)) ELSE Panic
         IN  IF opening.status = "panic" \/ ending.status = "panic"
             THEN [status |-> "panic", value |-> NoneOpt, candidates |-> candidates,
                   opening_idx |-> o, ending_idx |-> e]
             ELSE [status |-> "ok",
                   value |-> Some([opening |-> opening.value, ending |-> ending.value]),
                   candidates |-> candidates,
                   opening_idx |-> o, ending_idx |-> e]

find_best_match(self, matches) ==
    LET r == BestMatch(self, matches)
    IN  [status |-> r.status, value |-> r.value]

----------------------------------------------------------------------------
(* The configurations and the matcher harness. *)

Comparators ==
    { [ hash_match_threshold |-> th,
        opening_search_percentage |-> p[1],
        ending_search_percentage |-> p[2],
        min_opening_duration |-> d[1],
        min_ending_duration |-> d[2],
        time_padding |-> 0 ] :
      th \in Thresholds, p \in SearchPercentages, d \in MinDurations }

\* the variables of Comparator::run while no run is modelled
RunIdle ==
    /\ r_videos = <<>>
    /\ r_flags = [analyze |-> FALSE, use_skip_files |-> FALSE,
                  write_skip_files |-> FALSE, threading |-> FALSE]
    /\ r_disk = <<>>
    /\ r_run = 1
    /\ r_first = <<>>
    /\ r_error = "none"
    /\ r_pc = "idle"
    /\ r_idx = 0
    /\ r_frame_hash_map = <<>>
    /\ r_processed = <<>>
    /\ r_pairs = <<>>
    /\ r_searches = <<>>
    /\ r_info_map = <<>>
    /\ r_match_map = <<>>
    /\ r_skipped = {}
    /\ r_written = {}
    /\ r_result = "running"

\* the variables of Analyzer::run while no analyzer is modelled
\* the variables of the C ABI before any call
NoCall == [fn |-> "none", paths_null |-> FALSE, output_null |-> FALSE, raw_paths |-> <<>>,
           num_paths |-> 0, time_padding |-> 0, handle |-> 0]

CapiIdle ==
    /\ c_call = NoCall
    /\ c_ret = "none"
    /\ c_output = 0
    /\ c_heap = {}
    /\ c_ids = 0

AnalyzerIdle ==
    /\ an_self = [force |-> FALSE, include_endings |-> FALSE,
                  opening_search_percentage |-> 4, ending_search_percentage |-> 2]
    /\ an_args = [hash_period |-> 1, hash_duration |-> DEFAULT_HASH_DURATION,
                  persist |-> FALSE, threading |-> FALSE]
    /\ an_videos = <<>>
    /\ an_cache = <<>>
    /\ an_tasks = <<>>
    /\ an_pc = "idle"
    /\ an_result = [status |-> "none", value |-> <<>>]

NoBest == [status |-> "none", value |-> NoneOpt, candidates |-> <<>>,
           opening_idx |-> 0, ending_idx |-> 0]

NoSearch == [status |-> "none", value |-> <<>>, called |-> FALSE,
             entries |-> <<>>, cells |-> <<>>]

InitMatcher ==
    /\ comparator \in Comparators
    /\ \E sd \in StreamPairs, hd \in HashDurations :
          /\ m_src = FrameHashes(sd[1], hd[1])
          /\ m_dst = FrameHashes(sd[2], hd[2])
    /\ m_call = "none"
    /\ m_search = NoSearch
    /\ a_matches = <<>>
    /\ a_call = "idle"
    /\ a_out = NoBest
    /\ RunIdle
    /\ AnalyzerIdle
    /\ CapiIdle

\* The builds to tell apart for a pair of records.  A build with and one
\* without overflow checks differ only at `len() - 1` on an empty stream; for
\* other inputs one build stands for both.
Builds(src_hashes, dst_hashes) ==
    IF Len(src_hashes.data) = 0 \/ Len(dst_hashes.data) = 0 THEN BOOLEAN ELSE {TRUE}

\* the pair search on the two records
FindOpeningAndEnding ==
    /\ m_call = "none"
    /\ \E overflow_checks \in Builds(m_src, m_dst) :
          m_search' = PairSearch(comparator, m_src, m_dst, overflow_checks)
    /\ m_call' = "find_opening_and_ending"
    /\ UNCHANGED <<comparator, m_src, m_dst, a_vars, r_vars, x_vars>>

\* the matcher alone on a pair with an empty slice (for every other pair the
\* pair search above is the matcher's caller, with the bounds it computes)
LongestCommonHashMatch ==
    /\ m_call = "none"
    /\ Len(m_src.data) = 0 \/ Len(m_dst.data) = 0
    /\ \E overflow_checks \in Builds(m_src, m_dst) :
          m_search' = MatcherCall(comparator, m_src, m_dst, overflow_checks)
    /\ m_call' = "longest_common_hash_match"
    /\ UNCHANGED <<comparator, m_src, m_dst, a_vars, r_vars, x_vars>>

NextMatcher == FindOpeningAndEnding \/ LongestCommonHashMatch

SpecMatcher == InitMatcher /\ [][NextMatcher]_vars

----------------------------------------------------------------------------
(* The aggregator harness: the matches of one video, then find_best_match. *)

\* thresholds and paddings the aggregator is configured with
AggThresholds == {0, 1, 2}
Paddings == {0, 1}

AggComparators ==
    { [ hash_match_threshold |-> th,
        opening_search_percentage |-> 4,
        ending_search_percentage |-> 2,
        min_opening_duration |-> 0,
        min_ending_duration |-> 0,
        time_padding |-> pad ] :
      th \in AggThresholds, pad \in Paddings }

\* what a run is on the video's own side: its range (seconds), its summary
\* hash and its kind
Own(start, end, h, is_opening) ==
    [run |-> <<start, end>>, hash |-> h, is_opening |-> is_opening]

\* the entry of a run: the video's side carries the run and the video's hash
\* duration, the other side another run, the opposite kind and another hash
\* duration
OwnEntry(d, is_source) ==
    LET other_run == <<100, 130>>
        other_hash == 6
        other_hd == DEFAULT_HASH_DURATION - 1
    IN  [ score |-> 1,
          src_longest_run |-> IF is_source THEN d.run ELSE other_run,
          dst_longest_run |-> IF is_source THEN other_run ELSE d.run,
          src_match_hash |-> IF is_source THEN d.hash ELSE other_hash,
          dst_match_hash |-> IF is_source THEN other_hash ELSE d.hash,
          is_src_opening |-> IF is_source THEN d.is_opening ELSE ~d.is_opening,
          is_src_ending |-> IF is_source THEN ~d.is_opening ELSE d.is_opening,
          is_dst_opening |-> IF is_source THEN ~d.is_opening ELSE d.is_opening,
          is_dst_ending |-> IF is_source THEN d.is_opening ELSE ~d.is_opening,
          src_hash_duration |-> IF is_source THEN DEFAULT_HASH_DURATION ELSE other_hd,
          dst_hash_duration |-> IF is_source THEN other_hd ELSE DEFAULT_HASH_DURATION ]

\* the runs of the pair searches handed to the aggregator: a 30 s opening, a
\* 25 s opening, an opening from 10 s to 40 s, an opening shorter than the
\* hash duration, five 2 s endings, one ending
OwnRuns ==
    { <<Own(0, 30, 0, TRUE)>>,
      <<Own(0, 25, 1, TRUE)>>,
      <<Own(10, 40, 3, TRUE)>>,
      <<Own(1, 2, 7, TRUE)>>,
      [k \in 1..5 |-> Own(50 + k, 52 + k, 1, FALSE)],
      <<Own(60, 63, 0, FALSE)>> }

\* the pair searches handed to the aggregator, as (runs, is_source): the
\* video is the src of any of them, and the dst of the pairs that gave the
\* opening from 10 s to 40 s and the five endings
OwnMatches ==
    (OwnRuns \X {TRUE})
      \cup { <<runs, FALSE>> : runs \in { r \in OwnRuns : r[1].run[1] \in {10, 51} } }

InitAggregator ==
    /\ comparator \in AggComparators
    /\ a_matches = <<>>
    /\ a_call = "none"
    /\ a_out = NoBest
    /\ m_src = FrameHashes(<<>>, 0)
    /\ m_dst = FrameHashes(<<>>, 0)
    /\ m_call = "idle"
    /\ m_search = NoSearch
    /\ RunIdle
    /\ AnalyzerIdle
    /\ CapiIdle

\* info_map[idx].push((info, is_source)) for one more non-empty pair search
PushMatch ==
    /\ a_call = "none"
    /\ Len(a_matches) < MaxMatches
    /\ \E m \in OwnMatches :
          LET runs == m[1]
              is_source == m[2]
              entries == [k \in 1..Len(runs) |-> OwnEntry(runs[k], is_source)]
          IN  a_matches' = Append(a_matches, <<OpeningAndEndingInfo(entries), is_source>>)
    /\ UNCHANGED <<comparator, a_call, a_out, m_vars, r_vars, x_vars>>

FindBestMatch ==
    /\ a_call = "none"
    /\ a_out' = BestMatch(comparator, a_matches)
    /\ a_call' = "find_best_match"
    /\ UNCHANGED <<comparator, a_matches, m_vars, r_vars, x_vars>>

NextAggregator == PushMatch \/ FindBestMatch

SpecAggregator == InitAggregator /\ [][NextAggregator]_vars

----------------------------------------------------------------------------
(* The aggregator on the lists of one video in every order: matches of one *)
(* candidate each, then find_best_match.                                   *)

\* the pair searches that gave the video one candidate, as (runs, is_source)
OneRunMatches == { m \in OwnMatches : Len(m[1]) = 1 }

\* info_map[idx].push((info, is_source)) for one more pair search with one
\* candidate for the video
PushOne ==
    /\ a_call = "none"
    /\ Len(a_matches) < MaxMatches
    /\ \E m \in OneRunMatches :
          LET entries == <<OwnEntry(m[1][1], m[2])>>
          IN  a_matches' = Append(a_matches, <<OpeningAndEndingInfo(entries), m[2]>>)
    /\ UNCHANGED <<comparator, a_call, a_out, m_vars, r_vars, x_vars>>

NextOrder == PushOne \/ FindBestMatch

SpecOrder == InitAggregator /\ [][NextOrder]_vars

----------------------------------------------------------------------------
(* Comparator::run *)

\* (variant for C4) the pairs of iteration i without the test of processed_videos
RECURSIVE NewPairs_IgnoreProcessed(_, _, _)
NewPairs_IgnoreProcessed(i, processed, j) ==
    IF j >= Len(processed) THEN <<>>
    ELSE (IF i = j THEN <<>> ELSE << <<i, j>> >>)
         \o NewPairs_IgnoreProcessed(i, processed, j + 1)

\* the pairs pushed in iteration i of the first loop: (i, j) for every j in
\* 0..len-1 with i # j and processed_videos[j] not set, in the order of j
RECURSIVE NewPairs(_, _, _)
NewPairs(i, processed, j) ==
    IF j >= Len(processed) THEN <<>>
    ELSE (IF i = j \/ At(processed, j) THEN <<>> ELSE << <<i, j>> >>)
         \o NewPairs(i, processed, j + 1)

\* the pairs iteration i appends to pairs
PairsOf(i, processed) == NewPairs(i, processed, 0)

\* OpeningAndEndingInfo::is_empty
is_empty(info) ==
    /\ info.src_openings = <<>>
    /\ info.dst_openings = <<>>
    /\ info.src_endings = <<>>
    /\ info.dst_endings = <<>>

\* data: (src_idx, dst_idx, info) of the searches whose info is not empty, in
\* the order of pairs (map, filter and collect keep the order, on one thread
\* or many)
RECURSIVE Data(_, _, _)
Data(pairs, searches, k) ==
    IF k > Len(pairs) THEN <<>>
    ELSE (IF is_empty(searches[k].info) THEN <<>>
          ELSE << <<pairs[k][1], pairs[k][2], searches[k].info>> >>)
         \o Data(pairs, searches, k + 1)

\* info_map[idx]: for each element of data, (info, true) if idx is its src
\* and (info, false) if idx is its dst
RECURSIVE MatchesOf(_, _, _)
MatchesOf(data, idx, k) ==
    IF k > Len(data) THEN <<>>
    ELSE (IF data[k][1] = idx THEN << <<data[k][3], TRUE>> >> ELSE <<>>)
         \o (IF data[k][2] = idx THEN << <<data[k][3], FALSE>> >> ELSE <<>>)
         \o MatchesOf(data, idx, k + 1)

\* (variant for C30) a call with use_skip_files leaves out the first element
\* of data
InfoMap_SkipFilesDropFirst(data, len) ==
    [k \in 1..len |->
        MatchesOf(IF r_flags.use_skip_files /\ data # <<>> THEN Tail(data) ELSE data,
                  k - 1, 1)]

InfoMap(data, len) == [k \in 1..len |-> MatchesOf(data, k - 1, 1)]

\* what FrameHashes::from_path can find at the path of the frame hash file
CacheStates == {"present", "absent", "unreadable", "corrupt", "bad_version"}

\* (variant for C15) a missing file read as a record
from_path_AbsentOk(cache) ==
    CASE cache = "absent" -> Ok(TRUE)
      [] cache = "unreadable" -> Err("IOError")
      [] cache = "corrupt" -> Err("BincodeError")
      [] cache = "bad_version" -> Err("FrameHashDataInvalidVersion")
      [] cache = "present" -> Ok(TRUE)

\* FrameHashes::from_path, by what is at the path
from_path(cache) ==
    CASE cache = "absent" -> Err("FrameHashDataNotFound")
      [] cache = "unreadable" -> Err("IOError")
      [] cache = "corrupt" -> Err("BincodeError")
      [] cache = "bad_version" -> Err("FrameHashDataInvalidVersion")
      [] cache = "present" -> Ok(TRUE)

\* how the in-place analysis of a video can end (run_single with force)
Analyses == {"ok", "err", "panic"}

\* FrameHashes::from_video: the record of the file beside the video, or with
\* analyze what run_single makes of the video
from_video(frame_hashes, analyze, cache, analysis) ==
    IF ~analyze
    THEN (IF from_path(cache).status = "ok" THEN Ok(frame_hashes) ELSE from_path(cache))
    ELSE CASE analysis = "ok" -> Ok(frame_hashes)
           [] analysis = "err" -> Err("FFmpegError")
           [] analysis = "panic" -> Panic

\* a skip file beside a video: its state for check_skip_file and, once a run
\* wrote it, the result it holds
SkipFile(state, data) == [state |-> state, data |-> data]

\* check_skip_file, by what is on disk beside the video: no skip file
\* (Ok(false)), one with the video's md5 (Ok(true)), one with another md5
\* (Ok(false)), one that cannot be opened or a video whose md5 cannot be
\* computed (Err), one that is not the expected JSON, as found or as left by
\* a write that failed (unwrap panics)
SkipFileStates == {"absent", "match", "stale", "unreadable", "corrupt"}

\* (variant for C12) the check without the comparison of the md5 sums
check_skip_file_AnyMd5(skip_file) ==
    CASE skip_file = "absent" -> Ok(FALSE)
      [] skip_file \in {"match", "stale"} -> Ok(TRUE)
      [] skip_file = "unreadable" -> Err("IOError")
      [] skip_file \in {"corrupt", "truncated"} -> Panic

check_skip_file(skip_file) ==
    CASE skip_file = "absent" -> Ok(FALSE)
      [] skip_file = "match" -> Ok(TRUE)
      [] skip_file = "stale" -> Ok(FALSE)
      [] skip_file = "unreadable" -> Err("IOError")
      [] skip_file \in {"corrupt", "truncated"} -> Panic

\* create_skip_file writes nothing when the result has no opening and no ending
WritesSkipFile(result) == ~(result.opening = NoneOpt /\ result.ending = NoneOpt)

\* how far the write of a skip file gets: all of it, not past File::create
\* (or the md5 before it), not past serde_json::to_writer
SkipWrites == {"ok", "create", "serialize"}

\* (variant for C14) a skip file written for any result
create_skip_file_Always(skip_file, result, written) ==
    CASE written = "create" ->
            [status |-> "err", value |-> "IOError", skip |-> skip_file]
      [] written = "serialize" ->
            [status |-> "err", value |-> "SerdeJSONError",
             skip |-> SkipFile("truncated", NoneOpt)]
      [] written = "ok" ->
            [status |-> "ok", value |-> <<>>, skip |-> SkipFile("match", Some(result))]

\* (variant for C13) the skip file written with an md5 that is not the one
\* check_skip_file computes
create_skip_file_OtherMd5(skip_file, result, written) ==
    IF ~WritesSkipFile(result) THEN [status |-> "ok", value |-> <<>>, skip |-> skip_file]
    ELSE CASE written = "create" ->
                [status |-> "err", value |-> "IOError", skip |-> skip_file]
           [] written = "serialize" ->
                [status |-> "err", value |-> "SerdeJSONError",
                 skip |-> SkipFile("truncated", NoneOpt)]
           [] written = "ok" ->
                [status |-> "ok", value |-> <<>>, skip |-> SkipFile("stale", Some(result))]

\* create_skip_file: its result and the skip file it leaves
create_skip_file(skip_file, result, written) ==
    IF ~WritesSkipFile(result) THEN [status |-> "ok", value |-> <<>>, skip |-> skip_file]
    ELSE CASE written = "create" ->
                [status |-> "err", value |-> "IOError", skip |-> skip_file]
           [] written = "serialize" ->
                [status |-> "err", value |-> "SerdeJSONError",
                 skip |-> SkipFile("truncated", NoneOpt)]
           [] written = "ok" ->
                [status |-> "ok", value |-> <<>>, skip |-> SkipFile("match", Some(result))]

----------------------------------------------------------------------------
(* The runs of Comparator::run. *)

\* fingerprint streams of the videos: a block of two hashes, two bits or
\* more away from each other and from the fillers, between different fillers;
\* a stream that matches nothing of the others; an empty stream
RunStreams ==
    { StreamOf(<<3, 12, 0>>),
      StreamOf(<<15, 3, 12, 15>>),
      StreamOf(<<10, 10>>),
      <<>> }

RunComparators ==
    { [ hash_match_threshold |-> th,
        opening_search_percentage |-> 8,
        ending_search_percentage |-> 8,
        min_opening_duration |-> 0,
        min_ending_duration |-> 0,
        time_padding |-> 0 ] :
      th \in Thresholds }

NotSearched == [count |-> 0, info |-> OpeningAndEndingInfo(<<>>)]

\* the files beside a video before a run read or wrote them
Unread == [cache |-> "unread", skip |-> SkipFile("unread", NoneOpt)]

\* the arguments of run: every choice of the skip file flags and of
\* threading without analyze, and analyze on its own
RunFlags ==
    [analyze : {FALSE}, use_skip_files : BOOLEAN, write_skip_files : BOOLEAN,
     threading : BOOLEAN]
    \cup [analyze : {TRUE}, use_skip_files : {FALSE}, write_skip_files : {FALSE},
          threading : {FALSE}]

\* the state run starts from
Entered ==
    /\ r_pc = "load"
    /\ r_idx = 0
    /\ r_frame_hash_map = <<>>
    /\ r_processed = [k \in 1..Len(r_videos) |-> FALSE]
    /\ r_pairs = <<>>
    /\ r_searches = <<>>
    /\ r_info_map = <<>>
    /\ r_match_map = <<>>
    /\ r_skipped = {}
    /\ r_written = {}
    /\ r_result = "running"
    /\ r_error = "none"

Init ==
    /\ comparator \in RunComparators
    /\ r_videos \in UNION { [1..n -> RunStreams] : n \in 0..MaxVideos }
    /\ r_flags \in RunFlags
    /\ r_disk = [k \in 1..Len(r_videos) |-> Unread]
    /\ r_run = 1
    /\ r_first = <<>>
    /\ Entered
    /\ m_src = FrameHashes(<<>>, 0)
    /\ m_dst = FrameHashes(<<>>, 0)
    /\ m_call = "idle"
    /\ m_search = NoSearch
    /\ a_matches = <<>>
    /\ a_call = "idle"
    /\ a_out = NoBest
    /\ AnalyzerIdle
    /\ CapiIdle

\* run returns or panics: nothing else of it executes
Stop(result) ==
    /\ r_pc' = "done"
    /\ r_result' = result

\* run returns Err(out.value) or panics, as out says
Fail(out) ==
    /\ Stop(out.status)
    /\ r_error' = IF out.status = "err" THEN out.value ELSE "none"

\* what a function finds of a file: what the disk is known to hold, or any
\* of the states when the file is read for the first time
Found(known, states) == IF known = "unread" THEN states ELSE {known}

\* one iteration of the first loop: load the frame hashes of video i (`?`
\* returns the error of from_video), push them, push the pairs of i, mark i
LoadVideo ==
    /\ r_pc = "load"
    /\ r_idx < Len(r_videos)
    /\ \E cache \in (IF r_flags.analyze THEN {At(r_disk, r_idx).cache}
                      ELSE Found(At(r_disk, r_idx).cache, CacheStates)),
          analysis \in (IF r_flags.analyze THEN Analyses ELSE {"ok"}) :
          LET frame_hashes == from_video(FrameHashes(At(r_videos, r_idx), 1),
                                         r_flags.analyze, cache, analysis)
          IN  /\ r_disk' = [r_disk EXCEPT ![r_idx + 1].cache = cache]
              /\ IF frame_hashes.status # "ok"
                 THEN /\ Fail(frame_hashes)
                      /\ UNCHANGED <<r_idx, r_frame_hash_map, r_processed, r_pairs>>
                 ELSE /\ r_frame_hash_map' =
                            Append(r_frame_hash_map, frame_hashes.value)
                      /\ r_pairs' = r_pairs \o PairsOf(r_idx, r_processed)
                      /\ r_processed' = [r_processed EXCEPT ![r_idx + 1] = TRUE]
                      /\ r_idx' = r_idx + 1
                      /\ UNCHANGED <<r_pc, r_result, r_error>>
    /\ UNCHANGED <<x_vars, comparator, m_vars, a_vars, r_videos, r_flags, r_searches,
                   r_info_map, r_match_map, r_skipped, r_written, r_run, r_first>>

\* the first loop is over: the searches start
StartSearch ==
    /\ r_pc = "load"
    /\ r_idx = Len(r_videos)
    /\ r_pc' = "search"
    /\ r_searches' = [k \in 1..Len(r_pairs) |-> NotSearched]
    /\ UNCHANGED <<x_vars, comparator, m_vars, a_vars, r_videos, r_flags, r_idx,
                   r_frame_hash_map, r_processed, r_pairs, r_info_map, r_match_map,
                   r_skipped, r_written, r_result, r_disk, r_run, r_first, r_error>>

\* the pairs a search may start on: any pair not searched yet on the thread
\* pool, the first one not searched yet on one thread
Searchable ==
    LET todo == { k \in 1..Len(r_pairs) : r_searches[k].count = 0 }
    IN  IF r_flags.threading THEN todo
        ELSE { k \in todo : \A o \in todo : k <= o }

\* (variant for C18) the result of a search that returns after the search of
\* a later pair is lost
Collected_LateLost(searches, k, info) ==
    [searches EXCEPT ![k] =
        [count |-> @.count + 1,
         info |-> IF \E o \in (k + 1)..Len(searches) : searches[o].count > 0
                  THEN OpeningAndEndingInfo(<<>>) ELSE info]]

\* map(..).collect::<Vec<_>>() and extend(..map(..)): the result of the
\* search of the k-th pair is the k-th item, whenever the search returns
Collected(searches, k, info) ==
    [searches EXCEPT ![k] = [count |-> @.count + 1, info |-> info]]

\* self.search(src_idx, dst_idx, &frame_hash_map) on one pair; a panic of the
\* pair search ends the run
Search ==
    /\ r_pc = "search"
    /\ \E k \in Searchable :
          LET src_hashes == At(r_frame_hash_map, r_pairs[k][1])
              dst_hashes == At(r_frame_hash_map, r_pairs[k][2])
          IN  \E overflow_checks \in Builds(src_hashes, dst_hashes) :
                 LET info == find_opening_and_ending(comparator, src_hashes,
                                                     dst_hashes, overflow_checks)
                 IN  IF info.status = "panic"
                     THEN /\ Stop("panic")
                          /\ r_searches' =
                               [r_searches EXCEPT ![k].count = @ + 1]
                     ELSE /\ r_searches' = Collected(r_searches, k, info.value)
                          /\ UNCHANGED <<r_pc, r_result>>
    /\ UNCHANGED <<x_vars, comparator, m_vars, a_vars, r_videos, r_flags, r_idx,
                   r_frame_hash_map, r_processed, r_pairs, r_info_map, r_match_map,
                   r_skipped, r_written, r_disk, r_run, r_first, r_error>>

\* all searches returned: data is collected and info_map built from it
BuildInfoMap ==
    /\ r_pc = "search"
    /\ Searchable = {}
    /\ \A k \in 1..Len(r_pairs) : r_searches[k].count > 0
    /\ r_info_map' = InfoMap(Data(r_pairs, r_searches, 1), Len(r_videos))
    /\ r_pc' = "select"
    /\ r_idx' = 0
    /\ UNCHANGED <<x_vars, comparator, m_vars, a_vars, r_videos, r_flags, r_frame_hash_map,
                   r_processed, r_pairs, r_searches, r_match_map, r_skipped,
                   r_written, r_result, r_disk, r_run, r_first, r_error>>

\* the rest of an iteration of the last loop, after the skip file check let
\* the video through; skip_file is the skip file beside the video
SelectFor(idx, skip_file) ==
    LET seen == [r_disk EXCEPT ![idx + 1].skip = skip_file]
        result == find_best_match(comparator, At(r_info_map, idx))
    IN  IF result.status = "panic"
        THEN /\ Stop("panic")
             /\ r_disk' = seen
             /\ UNCHANGED <<r_idx, r_match_map, r_written, r_error>>
        ELSE IF result.value = NoneOpt
        THEN /\ r_idx' = idx + 1
             /\ r_disk' = seen
             /\ UNCHANGED <<r_pc, r_result, r_match_map, r_written, r_error>>
        ELSE \E written \in (IF r_flags.write_skip_files /\ WritesSkipFile(result.value[1])
                             THEN SkipWrites ELSE {"ok"}) :
                LET created == IF r_flags.write_skip_files
                               THEN create_skip_file(skip_file, result.value[1], written)
                               ELSE [status |-> "ok", value |-> <<>>, skip |-> skip_file]
                IN  /\ r_disk' = [r_disk EXCEPT ![idx + 1].skip = created.skip]
                    /\ IF created.status # "ok"
                       THEN /\ Fail(created)
                            /\ UNCHANGED <<r_idx, r_match_map, r_written>>
                       ELSE /\ r_written' =
                                 IF r_flags.write_skip_files /\ WritesSkipFile(result.value[1])
                                 THEN r_written \cup {idx} ELSE r_written
                            /\ r_match_map' = Append(r_match_map, <<idx, result.value[1]>>)
                            /\ r_idx' = idx + 1
                            /\ UNCHANGED <<r_pc, r_result, r_error>>

\* one iteration of the last loop, for the video at r_idx
SelectVideo ==
    /\ r_pc = "select"
    /\ r_idx < Len(r_videos)
    /\ \E state \in (IF r_flags.use_skip_files
                      THEN Found(At(r_disk, r_idx).skip.state, SkipFileStates)
                      ELSE {At(r_disk, r_idx).skip.state}) :
          LET skip_file == [At(r_disk, r_idx).skip EXCEPT !.state = state]
              skip == IF r_flags.use_skip_files THEN check_skip_file(state) ELSE Ok(FALSE)
          IN  IF skip.status # "ok"
              THEN /\ Fail(skip)
                   /\ r_disk' = [r_disk EXCEPT ![r_idx + 1].skip = skip_file]
                   /\ UNCHANGED <<r_idx, r_match_map, r_skipped, r_written>>
              ELSE IF skip.value
              THEN /\ r_skipped' = r_skipped \cup {r_idx}
                   /\ r_idx' = r_idx + 1
                   /\ r_disk' = [r_disk EXCEPT ![r_idx + 1].skip = skip_file]
                   /\ UNCHANGED <<r_pc, r_result, r_match_map, r_written, r_error>>
              ELSE /\ SelectFor(r_idx, skip_file)
                   /\ UNCHANGED r_skipped
    /\ UNCHANGED <<x_vars, comparator, m_vars, a_vars, r_videos, r_flags, r_frame_hash_map,
                   r_processed, r_pairs, r_searches, r_info_map, r_run, r_first>>

\* Ok(match_map).  The paths of self.videos are taken to be distinct, so that
\* match_map has one key per inserted position.
Return ==
    /\ r_pc = "select"
    /\ r_idx = Len(r_videos)
    /\ Stop("ok")
    /\ UNCHANGED <<x_vars, comparator, m_vars, a_vars, r_videos, r_flags, r_idx,
                   r_frame_hash_map, r_processed, r_pairs, r_searches, r_info_map,
                   r_match_map, r_skipped, r_written, r_disk, r_run, r_first, r_error>>

Next == LoadVideo \/ StartSearch \/ Search \/ BuildInfoMap \/ SelectVideo \/ Return

Spec == Init /\ [][Next]_vars

----------------------------------------------------------------------------
(* Two calls of Comparator::run on the same comparator, over the same      *)
(* videos and the disk the first call left.                                *)

\* the videos of the comparator: two that share a block; these with a third
\* that matches nothing of them; and one that shares its second sample with
\* a second video and its third sample with a third one
RerunVideos ==
    { << StreamOf(<<3, 12, 0>>), StreamOf(<<15, 3, 12, 15>>) >>,
      << StreamOf(<<3, 12, 0>>), StreamOf(<<10, 10>>), StreamOf(<<15, 3, 12, 15>>) >>,
      << StreamOf(<<0, 3, 12, 0>>), StreamOf(<<15, 3, 15>>), StreamOf(<<15, 12, 15>>) >> }

InitRerun ==
    /\ comparator \in RunComparators
    /\ r_videos \in RerunVideos
    /\ r_flags \in RunFlags
    /\ r_disk = [k \in 1..Len(r_videos) |-> Unread]
    /\ r_run = 1
    /\ r_first = <<>>
    /\ Entered
    /\ m_src = FrameHashes(<<>>, 0)
    /\ m_dst = FrameHashes(<<>>, 0)
    /\ m_call = "idle"
    /\ m_search = NoSearch
    /\ a_matches = <<>>
    /\ a_call = "idle"
    /\ a_out = NoBest
    /\ AnalyzerIdle
    /\ CapiIdle

\* the first call returned Ok(match_map) and run is called again, with any
\* arguments: what the first call did is kept for the comparison
Rerun ==
    /\ r_run = 1
    /\ r_pc = "done"
    /\ r_result = "ok"
    /\ r_run' = 2
    /\ r_first' = [flags |-> r_flags, info_map |-> r_info_map, match_map |-> r_match_map,
                   skipped |-> r_skipped, written |-> r_written, disk |-> r_disk]
    /\ r_flags' \in RunFlags
    /\ r_pc' = "load"
    /\ r_idx' = 0
    /\ r_frame_hash_map' = <<>>
    /\ r_processed' = [k \in 1..Len(r_videos) |-> FALSE]
    /\ r_pairs' = <<>>
    /\ r_searches' = <<>>
    /\ r_info_map' = <<>>
    /\ r_match_map' = <<>>
    /\ r_skipped' = {}
    /\ r_written' = {}
    /\ r_result' = "running"
    /\ r_error' = "none"
    /\ UNCHANGED <<x_vars, comparator, m_vars, a_vars, r_videos, r_disk>>

NextRerun == Next \/ Rerun

SpecRerun == InitRerun /\ [][NextRerun]_vars

----------------------------------------------------------------------------
(* The analyzer (needle/src/audio/analyzer.rs).  A packet of the audio     *)
(* stream carries one tick of audio and its pts is its index in the stream *)
(* (a time base of one tick); the percentages are in eighths.              *)

\* crate::util::compute_header_md5sum: read_exact of the first 8K fails on a
\* shorter file
compute_header_md5sum(video) ==
    IF video.header = "short" THEN Err("IOError") ELSE Ok(video.md5)

\* FrameHashes::new_v1
new_v1(opening, ending, hash_duration, md5) ==
    [opening |-> opening, ending |-> ending, hash_duration |-> hash_duration, md5 |-> md5]

\* the frame hash file beside a video: none, one bincode cannot read, a record
NoFile == [kind |-> "absent", data |-> <<>>]
CorruptFile == [kind |-> "corrupt", data |-> <<>>]
RecordFile(frame_hashes) == [kind |-> "record", data |-> frame_hashes]

\* (variant for C11) the test of the frame hash file without the comparison
\* of the md5 sums
CacheHit_AnyRecord(self, cache, md5) ==
    ~self.force /\ cache.kind = "record"

\* run_single returns the record of the frame hash file: force is not set,
\* File::open succeeds, and the record stores the md5 just computed
CacheHit(self, cache, md5) ==
    ~self.force /\ cache.kind = "record" /\ cache.data.md5 = md5

\* n = f32::ceil(hash_duration / hash_period) as usize.  x / 0.0 is +inf for
\* x > 0 and NaN for x = 0; the cast takes +inf to usize::MAX and NaN to 0.
InstancesOverflow(hash_duration, hash_period) == hash_period = 0 /\ hash_duration > 0

Instances(hash_duration, hash_period) ==
    IF hash_period = 0 THEN 0
    ELSE (hash_duration + hash_period - 1) \div hash_period

\* chromaprint::DelayedFingerprinter::new(n, interval, delay, ..): n
\* fingerprinters, the i-th one starting its first window i * delay after the
\* first sample
DelayedFingerprinter(n, interval, delay) ==
    [ interval |-> interval,
      next |-> [i \in 1..n |-> (i - 1) * delay],
      clock |-> 0,
      samples |-> <<>> ]

\* the windows complete at the fingerprinter's clock, from fingerprinter i on:
\* (raw fingerprint of the window, start of the window)
RECURSIVE Completed(_, _)
Completed(fp, i) ==
    IF i > Len(fp.next) THEN <<>>
    ELSE (IF fp.clock >= fp.next[i] + fp.interval
          THEN << <<SubSeq(fp.samples, fp.next[i] + 1, fp.next[i] + fp.interval),
                    fp.next[i]>> >>
          ELSE <<>>)
         \o Completed(fp, i + 1)

\* DelayedFingerprinter::feed of one buffer: the clock advances by the buffer;
\* each fingerprinter whose window is complete emits it and starts the next
feed(fp, buffer) ==
    LET fed == [fp EXCEPT !.clock = @ + 1, !.samples = Append(@, buffer)]
    IN  [ out |-> Completed(fed, 1),
          fp |-> [fed EXCEPT !.next =
                     [i \in 1..Len(fed.next) |->
                         IF fed.clock >= fed.next[i] + fed.interval
                         THEN fed.next[i] + fed.interval
                         ELSE fed.next[i]]] ]

\* the loop of process_frames over audio_packets, from the packet with pts k:
\* take_while stops at end_timestamp, a packet with pts <= 0 is skipped, the
\* others are decoded and fed, and each emitted (raw_fingerprint, ts) is
\* pushed as (simhash32(raw_fingerprint), ts)
RECURSIVE Packets(_, _, _, _, _)
Packets(audio, k, end_timestamp, fp, hashes) ==
    IF k >= Len(audio) \/ (end_timestamp # NoneOpt /\ ~(k < end_timestamp[1]))
    THEN hashes
    ELSE IF k <= 0 THEN Packets(audio, k + 1, end_timestamp, fp, hashes)
    ELSE LET f == feed(fp, At(audio, k))
         IN  Packets(audio, k + 1, end_timestamp, f.fp,
                     hashes \o [j \in 1..Len(f.out) |->
                                   Sample(simhash32(f.out[j][1]), f.out[j][2])])

\* (variant for C19) the timestamps rebased with the offset taken off the
\* last timestamp instead of added to each
Rebase_FromLast(hashes, seek_to) ==
    IF seek_to = NoneOpt THEN hashes
    ELSE [j \in 1..Len(hashes) |->
             Sample(hashes[j].hash, seek_to[1] + hashes[Len(hashes)].ts - hashes[j].ts)]

\* `*ts += seek_to` for every pushed hash, if seek_to is set
Rebase(hashes, seek_to) ==
    IF seek_to = NoneOpt THEN hashes
    ELSE [j \in 1..Len(hashes) |-> Sample(hashes[j].hash, hashes[j].ts + seek_to[1])]

\* util::seek_to_timestamp: `timestamp - 1s` panics below one second, the
\* assert panics unless timestamp + 1s is before the end of the stream, and
\* the seek itself can fail; it lands on a packet of [timestamp - 1s, timestamp]
seek_to_timestamp(audio, timestamp, env) ==
    IF timestamp < 1 \/ ~(timestamp + 1 < Len(audio)) THEN Panic
    ELSE IF ~env.seek THEN Err("FFmpegError")
    ELSE Ok(timestamp - env.landing)

\* process_frames on the stream of a video
process_frames(audio, hash_duration, hash_period, duration, seek_to, env) ==
    LET n == Instances(hash_duration, hash_period)
        fingerprinter == DelayedFingerprinter(n, hash_duration, hash_period)
        seek == IF seek_to = NoneOpt THEN Ok(0)
                ELSE seek_to_timestamp(audio, seek_to[1], env)
        end_timestamp ==
            IF duration = NoneOpt THEN NoneOpt
            ELSE Some((IF seek_to = NoneOpt THEN 0 ELSE seek_to[1]) + duration[1])
    IN  IF InstancesOverflow(hash_duration, hash_period) THEN Panic
        ELSE IF seek.status # "ok" THEN seek
        ELSE Ok(Rebase(Packets(audio, seek.value, end_timestamp, fingerprinter, <<>>),
                       seek_to))

\* (variant for C26) a task that fails leaves a partial frame hash file
Did_FailureLeavesFile(out, phases, cache) ==
    [status |-> out.status, value |-> out.value, phases |-> phases,
     cache |-> IF out.status = "ok" THEN cache ELSE CorruptFile]

\* what run_single did: its result, the phases it went through and the frame
\* hash file it left
Did(out, phases, cache) ==
    [status |-> out.status, value |-> out.value, phases |-> phases, cache |-> cache]

\* Analyzer::run_single on one video and the file beside it
run_single(self, video, cache, hash_period, hash_duration, persist, env) ==
    LET md5 == compute_header_md5sum(video)
        stream_duration == Len(video.audio)
        opening_duration == (stream_duration * self.opening_search_percentage) \div 8
        ending_seek_to ==
            (stream_duration * (8 - self.ending_search_percentage)) \div 8
        opening_hashes ==
            process_frames(video.audio, hash_duration, hash_period,
                           Some(opening_duration), NoneOpt, env)
        ending_hashes ==
            IF self.include_endings
            THEN process_frames(video.audio, hash_duration, hash_period,
                                NoneOpt, Some(ending_seek_to), env)
            ELSE Ok(<<>>)
        decoded == IF self.include_endings
                   THEN <<"provenance", "opening", "seek", "ending">>
                   ELSE <<"provenance", "opening">>
        frame_hashes ==
            new_v1(opening_hashes.value, ending_hashes.value, hash_duration, md5.value)
    IN  IF md5.status # "ok" THEN Did(md5, <<"provenance">>, cache)
        ELSE IF ~self.force /\ cache.kind = "corrupt"
        THEN Did(Panic, <<"provenance">>, cache)
        ELSE IF CacheHit(self, cache, md5.value)
        THEN Did(Ok(cache.data), <<"provenance", "cache_hit">>, cache)
        ELSE IF video.container = "invalid"
        THEN Did(Err("FFmpegError"), <<"provenance", "opening">>, cache)
        ELSE IF video.container \in {"no_audio", "no_duration"}
        THEN Did(Panic, <<"provenance", "opening">>, cache)
        ELSE IF hash_duration < 0 \/ hash_period < 0
        THEN Did(Panic, <<"provenance", "opening">>, cache)
        ELSE IF opening_hashes.status # "ok"
        THEN Did(opening_hashes, <<"provenance", "opening">>, cache)
        ELSE IF ending_hashes.status # "ok"
        THEN Did(ending_hashes, <<"provenance", "opening", "seek">>, cache)
        ELSE IF ~persist THEN Did(Ok(frame_hashes), decoded, cache)
        ELSE IF env.persist = "create"
        THEN Did(Err("IOError"), decoded \o <<"persist">>, cache)
        ELSE IF env.persist = "serialize"
        THEN Did(Err("BincodeError"), decoded \o <<"persist">>, CorruptFile)
        ELSE Did(Ok(frame_hashes), decoded \o <<"persist">>, RecordFile(frame_hashes))

----------------------------------------------------------------------------
(* The runs of Analyzer::run. *)

\* the samples of the audio streams, one per packet
AudioTracks == { <<3, 12, 0, 9, 6, 5, 10, 15>>, <<5, 5, 9, 9>> }

\* the video files: one shorter than the 8K header, one FFmpeg cannot open,
\* one without an audio stream, one without a duration, and the sound ones
VideoFiles ==
    { [header |-> "short", container |-> "ok", md5 |-> 1, audio |-> <<>>] }
    \cup { [header |-> "ok", container |-> c, md5 |-> 1, audio |-> <<>>] :
             c \in {"invalid", "no_audio", "no_duration"} }
    \cup { [header |-> "ok", container |-> "ok", md5 |-> 1, audio |-> a] :
             a \in AudioTracks }

\* the frame hash files beside them: none, an unreadable one, a record of the
\* video as it is (md5 1) and a record of an earlier content (md5 2)
CacheFiles ==
    { NoFile, CorruptFile,
      RecordFile(new_v1(<<Sample(7, 0)>>, <<>>, DEFAULT_HASH_DURATION, 1)),
      RecordFile(new_v1(<<Sample(7, 0)>>, <<>>, DEFAULT_HASH_DURATION, 2)) }

\* <<hash_period, hash_duration>> of a run
HashConfigs == { <<1, 2>>, <<1, 3>>, <<2, 3>>, <<0, 3>>, <<1, 0>>, <<0, 0>>, <<1, -1>> }

\* a sound video
SoundVideo(a) == [header |-> "ok", container |-> "ok", md5 |-> 1, audio |-> a]

\* the videos of an analyzer, each <<video file, frame hash file>>: none, any
\* one video with any file beside it, and any two of: a sound video with a
\* record of its md5, with a record of another md5 or with no file, a video
\* shorter than the header, a video without an audio stream
AnalyzerInputs ==
    LET both == { <<SoundVideo(a), c>> :
                     a \in AudioTracks, c \in { f \in CacheFiles : f.kind = "record" } }
                 \cup { <<v, NoFile>> :
                          v \in { f \in VideoFiles : f.container \in {"ok", "no_audio"} } }
    IN  { <<>> }
        \cup { <<i>> : i \in VideoFiles \X CacheFiles }
        \cup { <<i, j>> : i \in both, j \in both }

\* what the run does not decide: the packet a seek lands on (that many ticks
\* before its target), whether the seek succeeds, and how far the write of
\* the frame hash file gets
AnalyzerEnvs ==
    [landing : {0, 1}, seek : BOOLEAN, persist : {"ok", "create", "serialize"}]

NotRun == [status |-> "todo", value |-> <<>>, phases |-> <<>>, cache |-> NoFile]

\* the comparator of the specifications that model none
NoComparator ==
    [ hash_match_threshold |-> 0,
      opening_search_percentage |-> 4,
      ending_search_percentage |-> 2,
      min_opening_duration |-> 0,
      min_ending_duration |-> 0,
      time_padding |-> 0 ]

InitAnalyzer ==
    /\ an_self \in [force : BOOLEAN, include_endings : BOOLEAN,
                    opening_search_percentage : {4}, ending_search_percentage : {2}]
    /\ an_args \in { [hash_period |-> c[1], hash_duration |-> c[2],
                      persist |-> p, threading |-> t] :
                    c \in HashConfigs, p \in BOOLEAN, t \in BOOLEAN }
    /\ \E inputs \in AnalyzerInputs :
          /\ an_videos = [k \in 1..Len(inputs) |-> inputs[k][1]]
          /\ an_cache = [k \in 1..Len(inputs) |-> inputs[k][2]]
    /\ an_tasks = [k \in 1..Len(an_videos) |-> NotRun]
    /\ an_pc = "start"
    /\ an_result = [status |-> "none", value |-> <<>>]
    /\ comparator = NoComparator
    /\ m_src = FrameHashes(<<>>, 0)
    /\ m_dst = FrameHashes(<<>>, 0)
    /\ m_call = "idle"
    /\ m_search = NoSearch
    /\ a_matches = <<>>
    /\ a_call = "idle"
    /\ a_out = NoBest
    /\ RunIdle
    /\ CapiIdle

\* Analyzer::run before its tasks: no video is an error
AnalyzerStart ==
    /\ an_pc = "start"
    /\ IF Len(an_videos) = 0
       THEN /\ an_pc' = "done"
            /\ an_result' = Err("AnalyzerMissingPaths")
       ELSE /\ an_pc' = "tasks"
            /\ UNCHANGED an_result
    /\ UNCHANGED <<an_self, an_args, an_videos, an_cache, an_tasks,
                   comparator, m_vars, a_vars, r_vars, c_vars>>

\* the videos whose task may run next: any not run yet on the thread pool
\* (par_iter), the first one not run yet on one thread (iter)
Runnable ==
    LET todo == { k \in 1..Len(an_tasks) : an_tasks[k].status = "todo" }
    IN  IF an_args.threading THEN todo
        ELSE { k \in todo : \A o \in todo : k <= o }

\* one task: self.run_single(path, hash_period, hash_duration, persist).unwrap().
\* The unwrap of an Err panics, as a panic of run_single does: on one thread
\* the panic leaves run at once; on the thread pool it is resumed in run
\* when the pool is done with the iterator, and other tasks may still run.
RunSingle ==
    /\ an_pc \in {"tasks", "unwinding"}
    /\ \E k \in Runnable, env \in AnalyzerEnvs :
          LET did == run_single(an_self, an_videos[k], an_cache[k], an_args.hash_period,
                                an_args.hash_duration, an_args.persist, env)
          IN  /\ an_tasks' = [an_tasks EXCEPT ![k] = did]
              /\ an_cache' = [an_cache EXCEPT ![k] = did.cache]
              /\ IF did.status = "ok"
                 THEN UNCHANGED <<an_pc, an_result>>
                 ELSE IF an_args.threading
                 THEN /\ an_pc' = "unwinding"
                      /\ UNCHANGED an_result
                 ELSE /\ an_pc' = "done"
                      /\ an_result' = Panic
    /\ UNCHANGED <<an_self, an_args, an_videos, comparator, m_vars, a_vars, r_vars,
                   c_vars>>

\* Ok(data) once every task returned; the panic of a task of the pool
AnalyzerReturn ==
    /\ \/ /\ an_pc = "tasks"
          /\ \A k \in 1..Len(an_tasks) : an_tasks[k].status = "ok"
          /\ an_result' = Ok([k \in 1..Len(an_tasks) |-> an_tasks[k].value])
       \/ /\ an_pc = "unwinding"
          /\ an_result' = Panic
    /\ an_pc' = "done"
    /\ UNCHANGED <<an_self, an_args, an_videos, an_cache, an_tasks,
                   comparator, m_vars, a_vars, r_vars, c_vars>>

NextAnalyzer == AnalyzerStart \/ RunSingle \/ AnalyzerReturn

SpecAnalyzer == InitAnalyzer /\ [][NextAnalyzer]_vars

----------------------------------------------------------------------------
(* The constructors and the _free functions of the C ABI (needle-capi). *)

\* enum NeedleError, in the order of its variants: Ok = 0 and so on
NeedleError ==
    << "Ok", "InvalidUtf8String", "NullArgument", "InvalidArgument",
       "FrameHashDataNotFound", "FrameHashDataInvalidVersion", "InvalidFrameHashData",
       "ComparatorMinimumPaths", "AnalyzerInvalidHashPeriod",
       "AnalyzerInvalidHashDuration", "IOError", "Unknown" >>

\* the value of a variant under #[repr(C)]
ErrorValue(e) == (CHOOSE k \in 1..Len(NeedleError) : NeedleError[k] = e) - 1

\* an element of the array of paths: a C string of valid UTF-8, a null
\* pointer, a C string that is not UTF-8
PathElements == {"ok", "null", "bad_utf8"}

\* get_paths_from_raw: the paths, or the error of the first element that is
\* null or not UTF-8
get_paths_from_raw(raw_paths) ==
    LET bad == { k \in 1..Len(raw_paths) : raw_paths[k] # "ok" }
        first == CHOOSE k \in bad : \A o \in bad : k <= o
    IN  IF bad = {} THEN Ok(raw_paths)
        ELSE IF raw_paths[first] = "null" THEN Err("NullArgument")
        ELSE Err("InvalidUtf8String")

\* what a constructor did: what it returned and whether it wrote a new
\* handle to *output
Returned(e) == [ret |-> e, created |-> FALSE]
Created == [ret |-> "Ok", created |-> TRUE]
Unwound == [ret |-> "panic", created |-> FALSE]

\* (variant for C20) the number of paths tested before the pointers
needle_audio_comparator_new_CountFirst(call) ==
    IF call.num_paths < 2 THEN Returned("ComparatorMinimumPaths")
    ELSE IF call.paths_null \/ call.output_null THEN Returned("NullArgument")
    ELSE IF get_paths_from_raw(call.raw_paths).status # "ok"
    THEN Returned(get_paths_from_raw(call.raw_paths).value)
    ELSE IF call.time_padding < 0 THEN Unwound
    ELSE Created

\* needle_audio_comparator_new: Duration::from_secs_f32 panics on a negative
\* time_padding
needle_audio_comparator_new(call) ==
    IF call.paths_null \/ call.output_null THEN Returned("NullArgument")
    ELSE IF call.num_paths < 2 THEN Returned("ComparatorMinimumPaths")
    ELSE IF get_paths_from_raw(call.raw_paths).status # "ok"
    THEN Returned(get_paths_from_raw(call.raw_paths).value)
    ELSE IF call.time_padding < 0 THEN Unwound
    ELSE Created

needle_audio_analyzer_new(call) ==
    IF call.paths_null \/ call.output_null THEN Returned("NullArgument")
    ELSE IF get_paths_from_raw(call.raw_paths).status # "ok"
    THEN Returned(get_paths_from_raw(call.raw_paths).value)
    ELSE Created

\* the arguments of a call of a constructor: with an array of paths,
\* num_paths is its length; with a null paths, any number
NewCalls(fn, paddings) ==
    { [fn |-> fn, paths_null |-> FALSE, output_null |-> o, raw_paths |-> raw,
       num_paths |-> Len(raw), time_padding |-> t, handle |-> 0] :
        o \in BOOLEAN, t \in paddings,
        raw \in UNION { [1..n -> PathElements] : n \in 0..MaxPaths } }
    \cup
    { [fn |-> fn, paths_null |-> TRUE, output_null |-> o, raw_paths |-> <<>>,
       num_paths |-> n, time_padding |-> t, handle |-> 0] :
        o \in BOOLEAN, t \in paddings, n \in 0..MaxPaths }

\* a handle: a Box made by a constructor
Handle(id, type, paths) == [id |-> id, type |-> type, paths |-> paths]

\* the state after a constructor: a new Box behind *output, or nothing
Constructed(call, type, did) ==
    /\ c_call' = call
    /\ c_ret' = did.ret
    /\ IF did.created
       THEN /\ c_ids' = c_ids + 1
            /\ c_heap' = c_heap \cup {Handle(c_ids + 1, type, call.raw_paths)}
            /\ c_output' = c_ids + 1
       ELSE /\ c_output' = 0
            /\ UNCHANGED <<c_heap, c_ids>>

InitCapi ==
    /\ CapiIdle
    /\ comparator = NoComparator
    /\ m_src = FrameHashes(<<>>, 0)
    /\ m_dst = FrameHashes(<<>>, 0)
    /\ m_call = "idle"
    /\ m_search = NoSearch
    /\ a_matches = <<>>
    /\ a_call = "idle"
    /\ a_out = NoBest
    /\ RunIdle
    /\ AnalyzerIdle

ComparatorNew ==
    /\ c_ids < MaxHandles
    /\ \E call \in NewCalls("needle_audio_comparator_new", {0, -1}) :
          Constructed(call, "comparator", needle_audio_comparator_new(call))
    /\ UNCHANGED <<comparator, m_vars, a_vars, r_vars, an_vars>>

AnalyzerNew ==
    /\ c_ids < MaxHandles
    /\ \E call \in NewCalls("needle_audio_analyzer_new", {0}) :
          Constructed(call, "analyzer", needle_audio_analyzer_new(call))
    /\ UNCHANGED <<comparator, m_vars, a_vars, r_vars, an_vars>>

\* the handles a caller may pass to the _free of a type: null (0) and the
\* handles of the type it owns
Freeable(type) == {0} \cup { h.id : h \in { b \in c_heap : b.type = type } }

\* needle_audio_comparator_free / needle_audio_analyzer_free: nothing on a
\* null handle, else the Box is dropped
Freed(fn, type) ==
    \E id \in Freeable(type) :
        /\ c_call' = [NoCall EXCEPT !.fn = fn, !.handle = id]
        /\ c_ret' = "none"
        /\ c_heap' = IF id = 0 THEN c_heap ELSE { h \in c_heap : h.id # id }
        /\ UNCHANGED <<c_output, c_ids>>

ComparatorFree ==
    /\ Freed("needle_audio_comparator_free", "comparator")
    /\ UNCHANGED <<comparator, m_vars, a_vars, r_vars, an_vars>>

AnalyzerFree ==
    /\ Freed("needle_audio_analyzer_free", "analyzer")
    /\ UNCHANGED <<comparator, m_vars, a_vars, r_vars, an_vars>>

NextCapi == ComparatorNew \/ AnalyzerNew \/ ComparatorFree \/ AnalyzerFree

SpecCapi == InitCapi /\ [][NextCapi]_vars

----------------------------------------------------------------------------
(* Properties of the matcher and of the pair search (SpecMatcher). *)

Range(seq) == { seq[k] : k \in 1..Len(seq) }

\* the pair search returned: the matcher ran on m_src, m_dst with the bounds
\* the pair search computed from them
Searched == m_call = "find_opening_and_ending" /\ m_search.status = "ok"

\* src[i] and dst[j] match under the configured threshold
MatchAt(i, j) ==
    CountOnes(Xor(At(m_src.data, i).hash, At(m_dst.data, j).hash))
        <= comparator.hash_match_threshold

\* the only matching positions are the k pairs (p + d, q + d), d < k
OneBlock(p, q, k) ==
    \A i \in 0..(Len(m_src.data) - 1), j \in 0..(Len(m_dst.data) - 1) :
        MatchAt(i, j) <=> (\E d \in 0..(k - 1) : i = p + d /\ j = q + d)

\* the gates and the bounds of one side admit a run from start to end
SideAdmits(start, end, max_opening_time, min_ending_time) ==
    \/ end < max_opening_time /\ (end - start) >= comparator.min_opening_duration
    \/ start > min_ending_time /\ (end - start) >= comparator.min_ending_duration

\* the gates and the bounds admit the block at p in src and q in dst
Admits(p, q, k) ==
    LET b == SearchBounds(comparator, m_src, m_dst)
    IN  /\ SideAdmits(At(m_src.data, p).ts, At(m_src.data, p + k - 1).ts,
                      b.src_max_opening_time, b.src_min_ending_time)
        /\ SideAdmits(At(m_dst.data, q).ts, At(m_dst.data, q + k - 1).ts,
                      b.dst_max_opening_time, b.dst_min_ending_time)

\* C1 (as stated): with threshold 0, when one block of k samples of src
\* equals one block of k samples of dst and nothing else matches, and the
\* gates and bounds admit it, the matcher returns exactly one entry, of score
\* k, whose ranges go from the first to the last matched sample on each side.
C1_OneBlockOneEntry ==
    (Searched /\ comparator.hash_match_threshold = 0) =>
        \A p \in 0..(Len(m_src.data) - 1), q \in 0..(Len(m_dst.data) - 1) :
            \A k \in 1..Len(m_src.data) :
                ( /\ p + k <= Len(m_src.data)
                  /\ q + k <= Len(m_dst.data)
                  /\ OneBlock(p, q, k)
                  /\ Admits(p, q, k) )
                => /\ Len(m_search.entries) = 1
                   /\ m_search.entries[1].score = k
                   /\ m_search.entries[1].src_longest_run
                        = <<At(m_src.data, p).ts, At(m_src.data, p + k - 1).ts>>
                   /\ m_search.entries[1].dst_longest_run
                        = <<At(m_dst.data, q).ts, At(m_dst.data, q + k - 1).ts>>

\* the pair of the example: src = [A,B,C,D], dst = [X,A,B,C,Y], all admitted
C1_ExamplePair ==
    /\ Searched
    /\ comparator.hash_match_threshold = 0
    /\ comparator.opening_search_percentage = 8
    /\ comparator.min_opening_duration = 0
    /\ m_src.data = StreamOf(<<2, 4, 8, 0>>)
    /\ m_dst.data = StreamOf(<<1, 2, 4, 8, 1>>)

\* the matcher returned one entry, of score 2, for the block of 3
C1_ExampleScoreTwo ==
    /\ C1_ExamplePair
    /\ OneBlock(0, 1, 3) /\ Admits(0, 1, 3)
    /\ Len(m_search.entries) = 1
    /\ m_search.entries[1].score = 2

\* C2: the matcher pushes an entry only at a cell that ends a diagonal run of
\* matches (the next diagonal cell does not match or is off the streams), one
\* entry per such cell, so no returned entry is a sub-run of another one.
C2_EntriesOnlyAtRunEnds ==
    (m_call # "none" /\ m_search.status = "ok") =>
        LET cells == m_search.cells
            n == Len(m_src.data)
            m == Len(m_dst.data)
        IN  /\ Len(m_search.entries) = Len(cells)
            /\ \A k \in 1..Len(cells) :
                  LET i == cells[k][1]
                      j == cells[k][2]
                  IN  /\ MatchAt(i, j)
                      /\ (i + 1 >= n \/ j + 1 >= m \/ ~MatchAt(i + 1, j + 1))
            /\ \A k1, k2 \in 1..Len(cells) : k1 # k2 => cells[k1] # cells[k2]
            /\ { <<e.src_longest_run[2], e.dst_longest_run[2]>> : e \in Range(m_search.entries) }
                 = { <<At(m_src.data, c[1]).ts, At(m_dst.data, c[2]).ts>> : c \in Range(cells) }
            /\ \A k1, k2 \in 1..Len(cells) :
                  \A d \in 1..n :
                      ~ ( /\ cells[k2] = <<cells[k1][1] + d, cells[k1][2] + d>>
                          /\ \A e \in 0..d : MatchAt(cells[k1][1] + e, cells[k1][2] + e) )

\* two identical streams of three or more samples gave a run of two or more
C2_IdenticalStreamsRun ==
    /\ Searched
    /\ Len(m_src.data) >= 3
    /\ m_src.data = m_dst.data
    /\ \E e \in Range(m_search.entries) : e.score >= 2

\* C3 (as stated): on each side of a returned entry, a run that ends before
\* the opening bound is an opening and not an ending, a run that starts after
\* the ending bound is an ending and not an opening, and no returned run
\* straddles.
C3_RegionsExclusive ==
    Searched =>
        LET b == SearchBounds(comparator, m_src, m_dst)
        IN  \A e \in Range(m_search.entries) :
                /\ e.src_longest_run[2] < b.src_max_opening_time
                      => (e.is_src_opening /\ ~e.is_src_ending)
                /\ e.src_longest_run[1] > b.src_min_ending_time
                      => (~e.is_src_opening /\ e.is_src_ending)
                /\ e.dst_longest_run[2] < b.dst_max_opening_time
                      => (e.is_dst_opening /\ ~e.is_dst_ending)
                /\ e.dst_longest_run[1] > b.dst_min_ending_time
                      => (~e.is_dst_opening /\ e.is_dst_ending)
                /\ (e.src_longest_run[2] < b.src_max_opening_time
                      \/ e.src_longest_run[1] > b.src_min_ending_time)
                /\ (e.dst_longest_run[2] < b.dst_max_opening_time
                      \/ e.dst_longest_run[1] > b.dst_min_ending_time)

\* C3 (amended): on each side of a returned entry, is_opening says exactly
\* that the run ends before the opening bound and is_ending exactly that it
\* starts after the ending bound; the two exclude each other when the opening
\* bound is not after the ending bound; and one of the two holds on each side
\* (no returned run straddles).
C3_RegionFlags ==
    Searched =>
        LET b == SearchBounds(comparator, m_src, m_dst)
        IN  \A e \in Range(m_search.entries) :
                /\ e.is_src_opening <=> e.src_longest_run[2] < b.src_max_opening_time
                /\ e.is_src_ending <=> e.src_longest_run[1] > b.src_min_ending_time
                /\ e.is_dst_opening <=> e.dst_longest_run[2] < b.dst_max_opening_time
                /\ e.is_dst_ending <=> e.dst_longest_run[1] > b.dst_min_ending_time
                /\ b.src_max_opening_time <= b.src_min_ending_time
                      => ~(e.is_src_opening /\ e.is_src_ending)
                /\ b.dst_max_opening_time <= b.dst_min_ending_time
                      => ~(e.is_dst_opening /\ e.is_dst_ending)
                /\ e.is_src_opening \/ e.is_src_ending
                /\ e.is_dst_opening \/ e.is_dst_ending

\* a returned run lies between src's ending bound and src's opening bound
C3_BothFlags ==
    /\ Searched
    /\ \E e \in Range(m_search.entries) : e.is_src_opening /\ e.is_src_ending

\* the matcher's entries for the same streams, bounds, threshold and ending
\* gate, with min_opening_duration = d
EntriesWithOpeningGate(d) ==
    Range(Walk([comparator EXCEPT !.min_opening_duration = d],
               m_src.data, m_dst.data,
               SearchBounds(comparator, m_src, m_dst), TRUE).value)

\* the opening gates the configured one is compared with
OpeningGates == {0, 3}

\* C8: with everything else fixed, the entries returned under a lower
\* min_opening_duration include the entries returned under a higher one.
C8_OpeningGateMonotone ==
    Searched =>
        \A d \in OpeningGates \ {comparator.min_opening_duration} :
            IF d <= comparator.min_opening_duration
            THEN Range(m_search.entries) \subseteq EntriesWithOpeningGate(d)
            ELSE EntriesWithOpeningGate(d) \subseteq Range(m_search.entries)

\* the configured gate removed an entry that the gate 0 lets through, and
\* kept another one
C8_GateRemovedEntry ==
    /\ Searched
    /\ comparator.min_opening_duration > 0
    /\ m_search.entries # <<>>
    /\ EntriesWithOpeningGate(0) # Range(m_search.entries)

\* an entry with its src and dst fields exchanged
SwapEntry(e) ==
    [ score |-> e.score,
      src_longest_run |-> e.dst_longest_run,
      dst_longest_run |-> e.src_longest_run,
      src_match_hash |-> e.dst_match_hash,
      dst_match_hash |-> e.src_match_hash,
      is_src_opening |-> e.is_dst_opening,
      is_src_ending |-> e.is_dst_ending,
      is_dst_opening |-> e.is_src_opening,
      is_dst_ending |-> e.is_src_ending,
      src_hash_duration |-> e.dst_hash_duration,
      dst_hash_duration |-> e.src_hash_duration ]

\* C9: the entries returned for (src, dst) are the entries returned for
\* (dst, src) under the same configuration, with the src and dst fields of
\* each entry exchanged.
C9_SwapSymmetry ==
    Searched =>
        Range(m_search.entries)
          = { SwapEntry(e) :
                e \in Range(Walk(comparator, m_dst.data, m_src.data,
                                 SearchBounds(comparator, m_dst, m_src), TRUE).value) }

\* streams of different lengths gave an entry whose two sides differ
C9_UnequalSides ==
    /\ Searched
    /\ Len(m_src.data) # Len(m_dst.data)
    /\ \E e \in Range(m_search.entries) :
          /\ e.src_longest_run # e.dst_longest_run
          /\ e.is_src_opening # e.is_dst_opening

\* C10 (as stated): when src or dst is empty, the matcher and the pair search
\* return normally, with no candidate.
C10_EmptyStreamNoCandidates ==
    (m_call # "none" /\ (Len(m_src.data) = 0 \/ Len(m_dst.data) = 0)) =>
        /\ m_search.status = "ok"
        /\ m_search.entries = <<>>
        /\ m_call = "find_opening_and_ending" =>
              m_search.value = OpeningAndEndingInfo(<<>>)

\* the pair search was applied to an empty src and panicked
C10_EmptySrcPanics ==
    /\ m_call = "find_opening_and_ending"
    /\ Len(m_src.data) = 0
    /\ Len(m_dst.data) > 0
    /\ m_search.status = "panic"

\* the timestamps of the run that ends at cell (i, j): from the sample
\* table[i][j] places before the cell to the sample of the cell
RunTimes(data, k, t) == <<At(data, k - t).ts, At(data, k).ts>>

\* the acceptance rule for the run that ends at cell (i, j), written from the
\* bounds: each side is an opening long enough or an ending long enough
Accepts(i, j) ==
    LET b == SearchBounds(comparator, m_src, m_dst)
        t == Table(comparator, m_src.data, m_dst.data, i, j)
        s == RunTimes(m_src.data, i, t)
        d == RunTimes(m_dst.data, j, t)
    IN  /\ SideAdmits(s[1], s[2], b.src_max_opening_time, b.src_min_ending_time)
        /\ SideAdmits(d[1], d[2], b.dst_max_opening_time, b.dst_min_ending_time)

\* the cells the walk visits that end a run
RunEnds ==
    { c \in (1..(Len(m_src.data) - 1)) \X (1..(Len(m_dst.data) - 1)) :
        IsRunEnd(comparator, m_src.data, m_dst.data, c[1], c[2]) }

\* C21: the matcher returns the entry of a run-end cell exactly when the run
\* is valid on the src side and valid on the dst side, a side being valid
\* when the run is an opening there of at least min_opening_duration or an
\* ending there of at least min_ending_duration.
C21_AcceptanceRule ==
    Searched =>
        /\ Range(m_search.cells) = { c \in RunEnds : Accepts(c[1], c[2]) }
        /\ Len(m_search.entries) = Len(m_search.cells)

\* of two run ends, one was returned and the other, valid on the src side
\* only, was not
C21_OneSideNotEnough ==
    /\ Searched
    /\ m_search.entries # <<>>
    /\ \E c \in RunEnds \ Range(m_search.cells) :
          LET b == SearchBounds(comparator, m_src, m_dst)
              t == Table(comparator, m_src.data, m_dst.data, c[1], c[2])
              s == RunTimes(m_src.data, c[1], t)
          IN  SideAdmits(s[1], s[2], b.src_max_opening_time, b.src_min_ending_time)

\* C22 (as stated): every entry the matcher returns is an opening on both
\* sides or an ending on both sides; a run that is an opening on one side and
\* an ending on the other, or neither on one side, is dropped.
C22_SameKindOnBothSides ==
    Searched =>
        \A e \in Range(m_search.entries) :
            \/ e.is_src_opening /\ e.is_dst_opening
            \/ e.is_src_ending /\ e.is_dst_ending

\* the matcher returned an entry that is only an opening in src and only an
\* ending in dst
C22_OpeningAndEndingReturned ==
    /\ Searched
    /\ \E e \in Range(m_search.entries) :
          /\ e.is_src_opening /\ ~e.is_src_ending
          /\ e.is_dst_ending /\ ~e.is_dst_opening

\* C23 (as stated): each bucket of the pair search holds exactly the returned
\* entries whose flag of that bucket is true, an entry with both flags of one
\* side true being in both buckets of that side.
C23_BucketsFollowFlags ==
    Searched =>
        LET info == m_search.value
        IN  \A e \in Range(m_search.entries) \cup Range(info.src_openings)
                     \cup Range(info.src_endings) \cup Range(info.dst_openings)
                     \cup Range(info.dst_endings) :
                /\ e \in Range(info.src_openings) <=> e.is_src_opening
                /\ e \in Range(info.src_endings) <=> e.is_src_ending
                /\ e \in Range(info.dst_openings) <=> e.is_dst_opening
                /\ e \in Range(info.dst_endings) <=> e.is_dst_ending

\* a returned entry with both flags of the dst side true is in dst_openings
\* and not in dst_endings
C23_EndingBucketMissesEntry ==
    /\ Searched
    /\ \E e \in Range(m_search.entries) :
          /\ e.is_dst_opening /\ e.is_dst_ending
          /\ e \in Range(m_search.value.dst_openings)
          /\ e \notin Range(m_search.value.dst_endings)

Min(a, b) == IF a <= b THEN a ELSE b

\* the hashes of the samples start..end of a stream (source indices)
HashSlice(data, start, end) == [k \in 1..(end - start + 1) |-> At(data, start + k - 1).hash]

\* C29: every cell of the matcher's table is at most min(i, j), so row 0 and
\* column 0 are zero; for every cell whose entry is returned the start
\* indices i - table[i][j] and j - table[i][j] are indices of samples at or
\* before i and j, the entry's ranges are the timestamps of these samples and
\* its summary hashes those of the slices between them, and in every
\* returned range the start is not after the end (the timestamps of a stream
\* do not decrease).
C29_TableBoundsIndices ==
    LET src == m_src.data
        dst == m_dst.data
    IN  /\ \A i \in 0..Len(src), j \in 0..Len(dst) :
              /\ Table(comparator, src, dst, i, j) >= 0
              /\ Table(comparator, src, dst, i, j) <= Min(i, j)
        /\ Searched =>
              /\ \A c \in Range(m_search.cells) :
                    LET t == Table(comparator, src, dst, c[1], c[2])
                        si == c[1] - t
                        di == c[2] - t
                    IN  /\ t >= 1
                        /\ si \in 0..c[1] /\ c[1] \in 0..(Len(src) - 1)
                        /\ di \in 0..c[2] /\ c[2] \in 0..(Len(dst) - 1)
                        /\ \E e \in Range(m_search.entries) :
                              /\ e.score = t
                              /\ e.src_longest_run = <<At(src, si).ts, At(src, c[1]).ts>>
                              /\ e.dst_longest_run = <<At(dst, di).ts, At(dst, c[2]).ts>>
                              /\ e.src_match_hash = simhash32(HashSlice(src, si, c[1]))
                              /\ e.dst_match_hash = simhash32(HashSlice(dst, di, c[2]))
              /\ \A e \in Range(m_search.entries) :
                    /\ e.src_longest_run[1] <= e.src_longest_run[2]
                    /\ e.dst_longest_run[1] <= e.dst_longest_run[2]

\* a returned run goes back to the first sample of src: its cell holds
\* min(i, j) = i, at least 2, and its start index in src is 0
C29_RunFromFirstSample ==
    /\ Searched
    /\ \E c \in Range(m_search.cells) :
          /\ Table(comparator, m_src.data, m_dst.data, c[1], c[2]) = c[1]
          /\ c[1] >= 2
          /\ c[1] < c[2]

----------------------------------------------------------------------------
(* Properties of the aggregator (SpecAggregator). *)

Aggregated == a_call = "find_best_match" /\ a_out.status = "ok" /\ a_out.value # NoneOpt

\* the candidates other than k whose summary hash is within the widened
\* threshold of candidate k's
NeighborsOf(k) ==
    { j \in (1..Len(a_out.candidates)) \ {k} :
         CountOnes(Xor(a_out.candidates[k].match_hash, a_out.candidates[j].match_hash))
           < comparator.hash_match_threshold + (comparator.hash_match_threshold \div 2) }

Duration(c) == c.run[2] - c.run[1]

\* the video has exactly two opening candidates: i, of 30 s with no neighbor,
\* and j, of 25 s with 5 neighbors
TwoOpenings(i, j) ==
    /\ { k \in 1..Len(a_out.candidates) : a_out.candidates[k].is_opening } = {i, j}
    /\ Duration(a_out.candidates[i]) = 30 /\ Cardinality(NeighborsOf(i)) = 0
    /\ Duration(a_out.candidates[j]) = 25 /\ Cardinality(NeighborsOf(j)) = 5

\* C5 (as stated): of two opening candidates, one of 30 s with 0 neighbors and
\* one of 25 s with 5 neighbors, find_best_match reports the 25 s one.
C5_PrefersRecurrence ==
    a_call = "find_best_match" =>
        \A i, j \in 1..Len(a_out.candidates) :
            TwoOpenings(i, j) => (a_out.status = "ok" /\ a_out.opening_idx = j)

\* C5 (amended): of two opening candidates, one of 30 s with 0 neighbors and
\* one of 25 s with 5 neighbors, find_best_match reports the 30 s one
\* (0.3 * 1 + 0.7 * 30 = 21.3 against 0.3 * 6 + 0.7 * 25 = 19.3).
C5_PrefersDuration ==
    a_call = "find_best_match" =>
        \A i, j \in 1..Len(a_out.candidates) :
            TwoOpenings(i, j) =>
                /\ a_out.status = "ok"
                /\ a_out.opening_idx = i
                /\ a_out.value[1].opening
                     = Some(<<a_out.candidates[i].run[1] + comparator.time_padding,
                              a_out.candidates[i].run[2] - comparator.time_padding
                                - DEFAULT_HASH_DURATION>>)

\* the aggregator ran on the two openings of the claim
C5_TwoOpeningsAggregated ==
    /\ Aggregated
    /\ \E i, j \in 1..Len(a_out.candidates) : TwoOpenings(i, j)

\* C6: a reported range is (start + time_padding, end - time_padding -
\* hash window) of the selected candidate's raw range, the hash window being
\* the video's own; for the opening and for the ending.
C6_ReportedRange ==
    Aggregated =>
        /\ a_out.value[1].opening # NoneOpt =>
              /\ a_out.opening_idx \in 1..Len(a_out.candidates)
              /\ a_out.candidates[a_out.opening_idx].is_opening
              /\ a_out.value[1].opening
                   = Some(<<a_out.candidates[a_out.opening_idx].run[1] + comparator.time_padding,
                            a_out.candidates[a_out.opening_idx].run[2] - comparator.time_padding
                              - DEFAULT_HASH_DURATION>>)
        /\ a_out.value[1].ending # NoneOpt =>
              /\ a_out.ending_idx \in 1..Len(a_out.candidates)
              /\ ~a_out.candidates[a_out.ending_idx].is_opening
              /\ a_out.value[1].ending
                   = Some(<<a_out.candidates[a_out.ending_idx].run[1] + comparator.time_padding,
                            a_out.candidates[a_out.ending_idx].run[2] - comparator.time_padding
                              - DEFAULT_HASH_DURATION>>)

\* padding 1 s, hash window 3 s: the raw opening (10, 40) is reported as
\* (11, 36), and an ending is reported with it
C6_ExampleReported ==
    /\ Aggregated
    /\ comparator.time_padding = 1
    /\ a_out.opening_idx # 0
    /\ a_out.candidates[a_out.opening_idx].run = <<10, 40>>
    /\ a_out.candidates[a_out.opening_idx].hash_duration = 3
    /\ a_out.value[1].opening = Some(<<11, 36>>)
    /\ a_out.value[1].ending # NoneOpt

\* the candidates whose summary hash is within the widened threshold of
\* candidate k's (a symmetric relation; k itself is one when the threshold
\* is not 0)
Neighbors(k) ==
    { j \in 1..Len(a_out.candidates) :
         CountOnes(Xor(a_out.candidates[k].match_hash, a_out.candidates[j].match_hash))
           < comparator.hash_match_threshold + (comparator.hash_match_threshold \div 2) }

\* ten times 0.3 neighbor_count + 0.7 duration_seconds
WeightedSum(k) == 3 * Cardinality(Neighbors(k)) + 7 * Duration(a_out.candidates[k])

\* the flattened candidates of one kind
OfKind(is_opening) ==
    { k \in 1..Len(a_out.candidates) : a_out.candidates[k].is_opening = is_opening }

\* candidate idx has the largest weighted sum of its kind and is the first
\* of the flattened list among those that have it
FirstOfTheBest(idx, is_opening) ==
    /\ idx \in OfKind(is_opening)
    /\ \A o \in OfKind(is_opening) :
          /\ WeightedSum(idx) >= WeightedSum(o)
          /\ WeightedSum(idx) = WeightedSum(o) => idx <= o

Neighbored(is_opening) == { k \in OfKind(is_opening) : Neighbors(k) # {} }

\* candidate idx is the one reported among the candidates ks: the first of
\* the flattened list among those of the largest weighted sum, 0 for none
Selected(idx, ks) ==
    IF ks = {} THEN idx = 0
    ELSE /\ idx \in ks
         /\ \A o \in ks :
               /\ WeightedSum(idx) >= WeightedSum(o)
               /\ WeightedSum(idx) = WeightedSum(o) => idx <= o

Perms(n) == { p \in [1..n -> 1..n] : \A i, j \in 1..n : p[i] = p[j] => i = j }

\* the matches of the video in the order p
Permuted(p) == [k \in 1..Len(a_matches) |-> a_matches[p[k]]]

\* what find_best_match does on the matches in the order p
InOrder(p) == BestMatch(comparator, Permuted(p))

\* the candidates of one kind with the largest weighted sum among those that
\* have a neighbor, as (range, hash duration)
BestCandidates(is_opening) ==
    { <<a_out.candidates[k].run, a_out.candidates[k].hash_duration>> :
        k \in { i \in Neighbored(is_opening) :
                  \A o \in Neighbored(is_opening) : WeightedSum(i) >= WeightedSum(o) } }

\* C25 (as stated): find_best_match returns the same result for every
\* permutation of the list of matches of a video, candidates of equal score
\* or not.
C25_SameResultEveryOrder ==
    a_call = "find_best_match" =>
        \A p \in Perms(Len(a_matches)) :
            find_best_match(comparator, Permuted(p))
              = [status |-> a_out.status, value |-> a_out.value]

\* C25 (amended): for every permutation of the list of matches of a video,
\* find_best_match selects an opening and an ending among the same candidates,
\* those of the largest score of their kind, and none where it selects none;
\* it returns the same result whenever the candidates of the largest score of
\* each kind have one range and one hash duration.  When candidates of
\* different ranges share the largest score, the one that the order of the
\* list puts first is reported.
C25_SameBestEveryOrder ==
    a_call = "find_best_match" =>
        LET openings == BestCandidates(TRUE)
            endings == BestCandidates(FALSE)
            one == Cardinality(openings) <= 1 /\ Cardinality(endings) <= 1
        IN  \A p \in Perms(Len(a_matches)) :
                LET r == InOrder(p)
                IN  /\ r.opening_idx = 0 <=> a_out.opening_idx = 0
                    /\ r.ending_idx = 0 <=> a_out.ending_idx = 0
                    /\ r.opening_idx # 0 =>
                          <<r.candidates[r.opening_idx].run,
                            r.candidates[r.opening_idx].hash_duration>> \in openings
                    /\ r.ending_idx # 0 =>
                          <<r.candidates[r.ending_idx].run,
                            r.candidates[r.ending_idx].hash_duration>> \in endings
                    /\ one => (r.status = a_out.status /\ r.value = a_out.value)

\* two matches bring openings of equal score and different ranges: the call
\* reported the opening of the first match, and reports the other one's when
\* the two matches are exchanged
C25_OtherOrderOtherOpening ==
    /\ Aggregated
    /\ Len(a_matches) = 2
    /\ a_out.value[1].opening # NoneOpt
    /\ LET r == InOrder(<<2, 1>>)
       IN  /\ r.status = "ok"
           /\ r.value[1].opening # NoneOpt
           /\ r.value[1].opening # a_out.value[1].opening

\* C27 (as stated): whatever the threshold, when the flattened list of a
\* video has an opening candidate find_best_match reports an opening, and
\* when it has an ending candidate it reports an ending.
C27_CandidateThenReported ==
    (a_call = "find_best_match" /\ a_out.status = "ok" /\ a_matches # <<>>) =>
        /\ OfKind(TRUE) # {} => a_out.value[1].opening # NoneOpt
        /\ OfKind(FALSE) # {} => a_out.value[1].ending # NoneOpt

\* with threshold 0 the list had an opening candidate and an ending
\* candidate, and neither an opening nor an ending was reported
C27_NothingReportedAtZero ==
    /\ Aggregated
    /\ comparator.hash_match_threshold = 0
    /\ OfKind(TRUE) # {}
    /\ OfKind(FALSE) # {}
    /\ a_out.value[1] = [opening |-> NoneOpt, ending |-> NoneOpt]

\* C28 (as stated): find_best_match never fails on the subtraction of the
\* padding and the hash window from the end of the selected range, and in
\* every range it reports the start is not after the end.
C28_RangesWellFormed ==
    (a_call = "find_best_match" /\ a_matches # <<>>) =>
        /\ a_out.status = "ok"
        /\ \A range \in Range(a_out.value[1].opening) \cup Range(a_out.value[1].ending) :
              range[1] <= range[2]

\* the opening selected lasts less than the padding and the hash window
\* together, and the call panicked on the subtraction
C28_SubtractionPanicked ==
    /\ a_call = "find_best_match"
    /\ a_out.status = "panic"
    /\ a_out.opening_idx # 0
    /\ LET c == a_out.candidates[a_out.opening_idx]
       IN  /\ c.run[1] <= c.run[2]
           /\ c.run[2] < comparator.time_padding + c.hash_duration

----------------------------------------------------------------------------
(* Properties of Comparator::run (Spec). *)

\* the videos the run was given, by index
VideoIdx == 0..(Len(r_videos) - 1)

\* the number of searches of the run so far
RECURSIVE SearchCount(_)
SearchCount(k) == IF k = 0 THEN 0 ELSE r_searches[k].count + SearchCount(k - 1)

\* C4: run never searches a position with itself nor a pair twice; once the
\* pairs are built there is exactly one of (i, j), (j, i) among them for any
\* two positions i # j, V (V - 1) / 2 in all; and a run that gets to
\* the selection has searched each of them exactly once.
C4_EveryPairOnce ==
    /\ \A k \in 1..Len(r_pairs) : r_pairs[k][1] # r_pairs[k][2]
    /\ \A k \in 1..Len(r_searches) : r_searches[k].count <= 1
    /\ r_pc \in {"search", "select"} \/ (r_pc = "done" /\ r_result = "ok") =>
          /\ 2 * Len(r_pairs) = Len(r_videos) * (Len(r_videos) - 1)
          /\ \A i, j \in VideoIdx :
                i # j => Cardinality({ k \in 1..Len(r_pairs) :
                                          r_pairs[k] \in {<<i, j>>, <<j, i>>} }) = 1
    /\ r_pc = "select" \/ (r_pc = "done" /\ r_result = "ok") =>
          /\ \A k \in 1..Len(r_pairs) : r_searches[k].count = 1
          /\ 2 * SearchCount(Len(r_searches)) = Len(r_videos) * (Len(r_videos) - 1)

\* a run over three videos returned after its three searches
C4_ThreeVideosSearched ==
    /\ r_pc = "done" /\ r_result = "ok"
    /\ Len(r_videos) = 3
    /\ SearchCount(Len(r_searches)) = 3

\* the videos with an entry in match_map
Mapped == { r_match_map[k][1] : k \in 1..Len(r_match_map) }

\* C7 (as stated): the map run returns has a result for every video that
\* was not passed over for its skip file, and a video without any candidate
\* has the result (None, None).
C7_EveryVideoInMap ==
    (r_pc = "done" /\ r_result = "ok") =>
        /\ \A idx \in VideoIdx : idx \notin r_skipped => idx \in Mapped
        /\ \A k \in 1..Len(r_match_map) :
              At(r_info_map, r_match_map[k][1]) = <<>> =>
                  r_match_map[k][2] = [opening |-> NoneOpt, ending |-> NoneOpt]

\* a run returned a map without a video that had no skip file and no candidate
C7_VideoMissing ==
    /\ r_pc = "done" /\ r_result = "ok"
    /\ \E idx \in VideoIdx :
          /\ idx \notin r_skipped
          /\ At(r_info_map, idx) = <<>>
          /\ idx \notin Mapped

----------------------------------------------------------------------------
(* Properties of the skip files and of the errors of Comparator::run (Spec). *)

\* the last loop of run is past the video at idx
Passed(idx) == r_pc \in {"select", "done"} /\ idx < Len(r_info_map) /\ idx < r_idx

\* the skip file beside the video at idx, as far as the runs read or wrote it
SkipOf(idx) == At(r_disk, idx).skip

\* check_skip_file found the skip file beside the video at idx as the disk has it
WasRead(idx) == SkipOf(idx).state \in SkipFileStates /\ SkipOf(idx).data = NoneOpt

\* the result in match_map for the video at idx
ResultOf(idx) == { r_match_map[k][2] : k \in { j \in 1..Len(r_match_map) : r_match_map[j][1] = idx } }

\* C12: run passes over a video exactly when use_skip_files is set and the
\* skip file beside it stores the video's md5: such a video is not in the
\* map and its skip file is not written; any other video the last loop is
\* past, one without a skip file or with one of another md5 among them, has
\* the result of find_best_match on its matches in the map (none if there is
\* none).  No skip file is read before every pair has been searched, and
\* none at all without use_skip_files.
C12_SkipFileShortCircuit ==
    /\ \A idx \in VideoIdx :
          /\ idx \in r_skipped =>
                /\ Passed(idx)
                /\ r_flags.use_skip_files
                /\ SkipOf(idx).state = "match"
                /\ idx \notin Mapped
                /\ idx \notin r_written
          /\ (Passed(idx) /\ r_flags.use_skip_files /\ idx \notin r_written
                 /\ SkipOf(idx).state = "match") => idx \in r_skipped
          /\ (Passed(idx) /\ idx \notin r_skipped) =>
                LET result == find_best_match(comparator, At(r_info_map, idx))
                IN  /\ result.status = "ok"
                    /\ ResultOf(idx) = { result.value[k] : k \in 1..Len(result.value) }
          /\ WasRead(idx) =>
                /\ r_pc \in {"select", "done"}
                /\ \A k \in 1..Len(r_pairs) : r_searches[k].count = 1
    /\ ~r_flags.use_skip_files =>
          /\ r_skipped = {}
          /\ \A idx \in VideoIdx : ~WasRead(idx)

\* a run with both skip file flags returned: it passed over a video for its
\* skip file and wrote the skip file of another, whose skip file stored
\* another md5
C12_SkippedAndWritten ==
    /\ r_pc = "done" /\ r_result = "ok"
    /\ r_flags.use_skip_files
    /\ \E idx, o \in VideoIdx :
          /\ idx \in r_skipped
          /\ o \in r_written
          /\ o \in Mapped

\* the run found no frame hash file beside the video at idx
CacheMissing(idx) == ~r_flags.analyze /\ At(r_disk, idx).cache = "absent"

\* C15: without in-place analysis, once run finds no frame hash file beside
\* a video it has returned Err(FrameHashDataNotFound) at that video: there is
\* no map, no pair was searched, no info was collected, no video was passed
\* over and no skip file was read or written.
C15_MissingCacheFailsRun ==
    \A idx \in VideoIdx :
       CacheMissing(idx) =>
          /\ r_pc = "done"
          /\ r_result = "err"
          /\ r_error = "FrameHashDataNotFound"
          /\ r_idx = idx
          /\ r_match_map = <<>>
          /\ r_info_map = <<>>
          /\ r_searches = <<>>
          /\ r_skipped = {}
          /\ r_written = {}
          /\ \A k \in VideoIdx : At(r_disk, k).skip = Unread.skip

\* the frame hashes of two videos were loaded and the third has no file
C15_ThirdCacheMissing ==
    /\ Len(r_videos) = 3
    /\ CacheMissing(2)
    /\ Len(r_frame_hash_map) = 2
    /\ r_result = "err"

----------------------------------------------------------------------------
(* Properties of two calls of run (SpecRerun). *)

\* the second call returned Ok(match_map)
SecondReturned == r_run = 2 /\ r_pc = "done" /\ r_result = "ok"

\* the first call had write_skip_files and the second, which returned, has
\* use_skip_files
RoundTrip ==
    /\ SecondReturned
    /\ r_first.flags.write_skip_files
    /\ r_flags.use_skip_files

\* the skip file of the video at idx is as the first call left it (a file no
\* call had read or written before is as it was if the second call wrote none)
SameSkipFile(idx) ==
    IF At(r_first.disk, idx).skip.state = "unread"
    THEN SkipOf(idx).data = NoneOpt /\ SkipOf(idx).state # "truncated"
    ELSE SkipOf(idx) = At(r_first.disk, idx).skip

\* the videos with an opening or an ending in the map of the first call
FirstFound ==
    { r_first.match_map[k][1] :
        k \in { j \in 1..Len(r_first.match_map) : WritesSkipFile(r_first.match_map[j][2]) } }

Touched(idx) ==
    \/ idx \in r_written' \ r_written
    \/ LET before == At(r_disk, idx).skip
           after == At(r_disk', idx).skip
       IN  /\ after # before
           /\ ~(/\ before.state = "unread"
                /\ after.data = NoneOpt
                /\ after.state \in SkipFileStates)

\* C14: a step of run creates or overwrites the skip file of a video only in
\* a call with write_skip_files, in the iteration of the last loop that
\* aggregates this video (it is not passed over), and only if the result has
\* an opening or an ending; a write that succeeds stores this result and
\* the video enters the map with it. So a result with neither leaves the
\* skip file as it was.
C14_WritesOnlyFoundResults ==
    [][ \A idx \in VideoIdx :
          Touched(idx) =>
             /\ r_flags.write_skip_files
             /\ r_pc = "select"
             /\ r_idx = idx
             /\ idx \notin r_skipped'
             /\ LET result == find_best_match(comparator, At(r_info_map, idx))
                IN  /\ result.status = "ok"
                    /\ result.value # NoneOpt
                    /\ WritesSkipFile(result.value[1])
                    /\ idx \in r_written' =>
                          /\ At(r_disk', idx).skip = SkipFile("match", Some(result.value[1]))
                          /\ r_match_map' = Append(r_match_map, <<idx, result.value[1]>>)
      ]_vars

\* a call with both flags read the stale skip file of a video, aggregated
\* the video to a result with no opening and no ending, and left the skip
\* file alone
C14_StaleLeftAlone ==
    /\ r_flags.write_skip_files
    /\ r_flags.use_skip_files
    /\ r_pc = "done"
    /\ r_result = "ok"
    /\ \E k \in 1..Len(r_match_map) :
          /\ ~WritesSkipFile(r_match_map[k][2])
          /\ SkipOf(r_match_map[k][1]) = SkipFile("stale", NoneOpt)

\* C18: the info map and the result map are empty until every
\* pair search has returned; the info map of a second call of run over the
\* same videos is the info map of the first, whatever the threading of each
\* call and the order in which the searches returned; and when neither call
\* passes over videos for their skip files the second call returns the map
\* of the first.
C18_SameMapsEveryOrder ==
    /\ r_pc \in {"load", "search"} => (r_info_map = <<>> /\ r_match_map = <<>>)
    /\ (r_run = 2 /\ (r_pc = "select" \/ SecondReturned)) =>
          r_info_map = r_first.info_map
    /\ (SecondReturned /\ ~r_flags.use_skip_files /\ ~r_first.flags.use_skip_files) =>
          r_match_map = r_first.match_map

\* a call on one thread and a call with threading, neither with skip files,
\* over three videos returned the same map, with an opening for every video
C18_ThreadedSameMap ==
    /\ SecondReturned
    /\ r_flags.threading # r_first.flags.threading
    /\ ~r_flags.use_skip_files /\ ~r_first.flags.use_skip_files
    /\ Len(r_videos) = 3
    /\ Len(r_match_map) = 3
    /\ r_match_map = r_first.match_map
    /\ \A k \in 1..3 : r_match_map[k][2].opening # NoneOpt

\* the videos with an entry in the map of the first call
FirstMapped == { r_first.match_map[k][1] : k \in 1..Len(r_first.match_map) }

\* the result in the map of the first call for the video at idx
FirstResultOf(idx) ==
    { r_first.match_map[k][2] :
        k \in { j \in 1..Len(r_first.match_map) : r_first.match_map[j][1] = idx } }

\* C30: use_skip_files changes only which videos are in the map.  A call
\* that returns has loaded the fingerprints of every video and searched every
\* pair once, the videos it passes over included, and passes over none
\* without use_skip_files; of two calls over the same videos, whatever their
\* flags, the second builds the info map of the first, a video that neither
\* passes over is in both maps or in none, and every video in both maps has
\* the same result in both.
C30_SkipFilesOnlyOmit ==
    /\ (r_pc = "done" /\ r_result = "ok") =>
          /\ Len(r_frame_hash_map) = Len(r_videos)
          /\ 2 * Len(r_pairs) = Len(r_videos) * (Len(r_videos) - 1)
          /\ \A k \in 1..Len(r_pairs) : r_searches[k].count = 1
          /\ r_info_map = InfoMap(Data(r_pairs, r_searches, 1), Len(r_videos))
          /\ r_skipped \cap Mapped = {}
          /\ ~r_flags.use_skip_files => r_skipped = {}
    /\ SecondReturned =>
          /\ r_info_map = r_first.info_map
          /\ Mapped \ r_first.skipped = FirstMapped \ r_skipped
          /\ \A idx \in Mapped \cap FirstMapped : ResultOf(idx) = FirstResultOf(idx)

\* of two videos, a call without use_skip_files reported both with an
\* opening; the next call, with use_skip_files, passed over the first and
\* reported the second, with the opening that the search of the pair of the
\* two gave it
C30_PartnerSkipped ==
    /\ SecondReturned
    /\ ~r_first.flags.use_skip_files
    /\ r_flags.use_skip_files
    /\ Len(r_videos) = 2
    /\ FirstMapped = {0, 1}
    /\ r_skipped = {0}
    /\ Mapped = {1}
    /\ \A k \in 1..Len(r_match_map) : r_match_map[k][2].opening # NoneOpt
    /\ ResultOf(1) = FirstResultOf(1)

----------------------------------------------------------------------------
(* Properties of the analyzer (SpecAnalyzer). *)

\* the task of video k ran in this step
Ran(k) == an_tasks[k].status = "todo" /\ an_tasks'[k].status # "todo"

\* the record beside video k stores the md5 of the video as it is
StoresCurrentMd5(k) ==
    /\ an_cache[k].kind = "record"
    /\ compute_header_md5sum(an_videos[k]).status = "ok"
    /\ an_cache[k].data.md5 = compute_header_md5sum(an_videos[k]).value

\* what run_single does is what it does without any frame hash file
AsWithoutFile(k, did) ==
    \E env \in AnalyzerEnvs :
        LET d == run_single(an_self, an_videos[k], NoFile, an_args.hash_period,
                            an_args.hash_duration, an_args.persist, env)
        IN  /\ d.status = did.status
            /\ d.value = did.value
            /\ d.phases = did.phases

\* C11: run_single on a video whose header can be read returns the record of
\* the frame hash file, as it is, without decoding and without writing, if
\* and only if force is not set and the file holds a record that stores the
\* video's md5; with no file, with a record of another md5 or with force set
\* it goes on to decode, and a record of another md5 changes nothing of what
\* it does and returns compared with no file at all.
C11_CacheRule ==
    [][\A k \in 1..Len(an_tasks) :
          (Ran(k) /\ compute_header_md5sum(an_videos[k]).status = "ok") =>
              LET did == an_tasks'[k]
                  hit == ~an_self.force /\ StoresCurrentMd5(k)
                  returned == did.status = "ok" /\ did.phases = <<"provenance", "cache_hit">>
              IN  /\ returned <=> hit
                  /\ returned => /\ did.value = an_cache[k].data
                                  /\ an_cache'[k] = an_cache[k]
                  /\ ( \/ an_self.force
                       \/ an_cache[k].kind = "absent"
                       \/ an_cache[k].kind = "record" /\ ~StoresCurrentMd5(k) ) =>
                          /\ Len(did.phases) >= 2
                          /\ did.phases[2] = "opening"
                  /\ (an_cache[k].kind = "record" /\ ~StoresCurrentMd5(k)) =>
                          AsWithoutFile(k, did)]_vars

\* a run that persists returned the record of a frame hash file for a video
\* and decoded another video whose record stores another md5
C11_CacheReturned ==
    /\ an_args.persist
    /\ \E k, o \in 1..Len(an_tasks) :
          /\ an_tasks[k].phases = <<"provenance", "cache_hit">>
          /\ an_tasks[k].status = "ok"
          /\ an_tasks[o].status = "ok"
          /\ Len(an_tasks[o].phases) > 2
          /\ an_tasks[o].value.md5 = 1
          /\ an_cache[o].kind = "record"
          /\ an_cache[o].data = an_tasks[o].value

\* the task of video k came to an end other than Ok
TaskFailed(k) == an_tasks[k].status \in {"err", "panic"}

\* C16 (as stated): when a task of the analyzer fails, run returns an error
\* value to its caller, with or without threading, and a run that returns
\* Ok has the record of every video.
C16_TaskFailureIsError ==
    an_pc = "done" =>
        /\ (\E k \in 1..Len(an_tasks) : TaskFailed(k)) =>
              /\ an_result.status = "err"
              /\ an_result.value \in {"IOError", "FFmpegError", "BincodeError"}
        /\ an_result.status = "ok" => Len(an_result.value) = Len(an_videos)

\* run_single returned Err(IOError) for a video, no task panicked by itself,
\* and run on the thread pool ended in a panic
C16_ErrUnwrapped ==
    /\ an_pc = "done"
    /\ an_args.threading
    /\ an_result = Panic
    /\ \E k \in 1..Len(an_tasks) :
          /\ an_tasks[k].status = "err"
          /\ an_tasks[k].value = "IOError"
    /\ \A k \in 1..Len(an_tasks) : an_tasks[k].status # "panic"

\* the arguments of the run are not a valid configuration
InvalidConfig == an_args.hash_duration <= 0 \/ an_args.hash_period <= 0

\* C17 (as stated): Analyzer::run on some videos with a hash duration or a
\* hash period that is not positive opens no video, writes no file and
\* returns an InvalidConfig error.
C17_InvalidConfigRejected ==
    (InvalidConfig /\ Len(an_videos) > 0) =>
        /\ \A k \in 1..Len(an_tasks) : an_tasks[k] = NotRun
        /\ an_pc = "done" => an_result = Err("InvalidConfig")

\* run with a hash period of zero returned Ok: it read the header of the
\* video and returned the record of the file beside it
C17_ZeroPeriodAccepted ==
    /\ an_args.hash_period = 0
    /\ an_pc = "done"
    /\ an_result.status = "ok"
    /\ \E k \in 1..Len(an_tasks) : an_tasks[k].phases = <<"provenance", "cache_hit">>

\* the timestamps of a fingerprint stream never go back
NonDecreasing(hashes) ==
    \A j \in 1..(Len(hashes) - 1) : hashes[j].ts <= hashes[j + 1].ts

\* run_single decoded video k and returned its record
Decoded(k) ==
    /\ an_tasks[k].status = "ok"
    /\ Len(an_tasks[k].phases) >= 2
    /\ an_tasks[k].phases[2] = "opening"

\* the offset process_frames seeks to for the ending of video k
EndingSeekTo(k) ==
    (Len(an_videos[k].audio) * (8 - an_self.ending_search_percentage)) \div 8

\* C19: in the record run_single makes of a video, the opening stream and
\* the ending stream have non-decreasing timestamps in the order the hashes
\* were pushed, also after the seek offset was added to the timestamps of
\* the ending stream, and every timestamp of the ending stream is at least
\* the seek offset.
C19_MonotonicTimestamps ==
    \A k \in 1..Len(an_tasks) :
       Decoded(k) =>
          /\ NonDecreasing(an_tasks[k].value.opening)
          /\ NonDecreasing(an_tasks[k].value.ending)
          /\ \A j \in 1..Len(an_tasks[k].value.ending) :
                an_tasks[k].value.ending[j].ts >= EndingSeekTo(k)

\* a record with two or more hashes in each stream, the ending stream of
\* overlapping windows after a seek that landed before its target
C19_TwoHashesEachStream ==
    \E k \in 1..Len(an_tasks) :
       /\ Decoded(k)
       /\ Len(an_tasks[k].value.opening) >= 2
       /\ Len(an_tasks[k].value.ending) >= 2
       /\ an_tasks[k].value.ending[1].ts = EndingSeekTo(k)
       /\ an_tasks[k].value.ending[2].ts > EndingSeekTo(k)
       /\ an_args.hash_period < an_args.hash_duration

\* the phases of a task that decoded everything it has to decode
AllDecoded ==
    IF an_self.include_endings
    THEN <<"provenance", "opening", "seek", "ending">>
    ELSE <<"provenance", "opening">>

\* seq is the beginning of full
IsPrefix(seq, full) == Len(seq) <= Len(full) /\ seq = SubSeq(full, 1, Len(seq))

\* C26: the phases of a task are a beginning of: provenance check, opening
\* decode, then seek and ending decode when include_endings is set and only
\* then, then persist when persist is requested and only then; or provenance
\* check and cache hit, which ends the task with Ok.  A task that returns Ok
\* went through all of them.  The frame hash file is changed only by a task
\* with persist requested that is in its persist phase, after all its
\* decoding phases; a task that ends before that phase, on its header, on
\* opening the video, on a seek or in decoding, leaves the file as it was.
C26_PhasesInOrder ==
    [][\A k \in 1..Len(an_tasks) :
          Ran(k) =>
              LET did == an_tasks'[k]
                  whole == IF an_args.persist THEN AllDecoded \o <<"persist">>
                           ELSE AllDecoded
                  hit == did.phases = <<"provenance", "cache_hit">>
              IN  /\ hit \/ (did.phases # <<>> /\ IsPrefix(did.phases, whole))
                  /\ hit => did.status = "ok"
                  /\ (did.status = "ok" /\ ~hit) => did.phases = whole
                  /\ an_cache'[k] # an_cache[k] =>
                        /\ an_args.persist
                        /\ did.phases = AllDecoded \o <<"persist">>
                  /\ (did.status # "ok" /\ did.phases # AllDecoded \o <<"persist">>) =>
                        an_cache'[k] = an_cache[k]
                  /\ (did.status = "ok" /\ an_args.persist /\ ~hit) =>
                        an_cache'[k] = RecordFile(did.value)]_vars

\* a run that persists, with include_endings: the task of a video with a
\* record of another md5 beside it decoded the opening, failed on the seek and
\* left the record as it was
C26_SeekFailedFileKept ==
    /\ an_args.persist
    /\ an_self.include_endings
    /\ \E k \in 1..Len(an_tasks) :
          /\ an_tasks[k].status = "err"
          /\ an_tasks[k].phases = <<"provenance", "opening", "seek">>
          /\ an_cache[k].kind = "record"
          /\ ~StoresCurrentMd5(k)

----------------------------------------------------------------------------
(* Properties of the C ABI (SpecCapi). *)

Constructors == {"needle_audio_comparator_new", "needle_audio_analyzer_new"}

\* the first element of the array that is null or not UTF-8, 0 if none
FirstBadPath(raw_paths) ==
    LET bad == { k \in 1..Len(raw_paths) : raw_paths[k] # "ok" }
    IN  IF bad = {} THEN 0 ELSE CHOOSE k \in bad : \A o \in bad : k <= o

\* C20: needle_audio_comparator_new returns NullArgument for a null paths or
\* output and, with neither null, ComparatorMinimumPaths for fewer than two
\* paths; a constructor that got past these tests returns NullArgument for
\* an array whose first bad element is null and InvalidUtf8String for one
\* whose first bad element is not UTF-8. A constructor that returns anything
\* but Ok, or does not return, creates no handle and does not write *output;
\* one that returns Ok (value 0) leaves in *output a new handle, not null,
\* which nothing else holds. A _free of a handle drops that handle and no
\* other; a _free of null changes nothing.
C20_ConstructorContract ==
    [][ LET call == c_call'
            nulls == call.paths_null \/ call.output_null
            bad == FirstBadPath(call.raw_paths)
        IN  /\ (call.fn = "needle_audio_comparator_new" /\ nulls) =>
                   c_ret' = "NullArgument"
            /\ (call.fn = "needle_audio_comparator_new" /\ ~nulls /\ call.num_paths < 2) =>
                   c_ret' = "ComparatorMinimumPaths"
            /\ (call.fn = "needle_audio_analyzer_new" /\ nulls) =>
                   c_ret' = "NullArgument"
            /\ ( /\ call.fn \in Constructors
                 /\ ~nulls
                 /\ call.fn = "needle_audio_comparator_new" => call.num_paths >= 2
                 /\ bad # 0 ) =>
                   c_ret' = (IF call.raw_paths[bad] = "null" THEN "NullArgument"
                             ELSE "InvalidUtf8String")
            /\ (call.fn \in Constructors /\ c_ret' # "Ok") =>
                   /\ c_heap' = c_heap
                   /\ c_output' = 0
            /\ (call.fn \in Constructors /\ c_ret' = "Ok") =>
                   /\ ErrorValue(c_ret') = 0
                   /\ c_output' # 0
                   /\ c_output' \notin { h.id : h \in c_heap }
                   /\ \E h \in c_heap' : h.id = c_output' /\ c_heap' = c_heap \cup {h}
            /\ call.fn \notin (Constructors \cup {"none"}) =>
                   /\ c_output' = c_output
                   /\ c_heap' = { h \in c_heap : h.id # call.handle }
                   /\ call.handle = 0 => c_heap' = c_heap
      ]_vars

\* a comparator was made, freed, and a second one made from two paths,
\* which the caller holds
C20_SecondComparatorHeld ==
    /\ c_call.fn = "needle_audio_comparator_new"
    /\ c_ret = "Ok"
    /\ c_ids = 2
    /\ c_output = 2
    /\ c_heap = {Handle(2, "comparator", <<"ok", "ok">>)}

====
